---------------------------- MODULE Spec2Model ----------------------------
(***************************************************************************)
(* A model of TikTok-Product-Scout: the product store (identity            *)
(* resolution, observations and their deltas, supplier matches, alerts),   *)
(* the alert check of the job coordinator and the job scheduler.           *)
(*                                                                         *)
(* Time is counted in whole hours.  An optional value (Python None or a    *)
(* value) is a sequence of length 0 or 1.  A name is a sequence of         *)
(* one-character strings.                                                  *)
(***************************************************************************)
EXTENDS Integers, Sequences, FiniteSets, TLC

(***************************************************************************)
(* Bounds of the model.                                                    *)
(***************************************************************************)
MaxObservations == 3
MaxTime == 2

None == <<>>
Some(v) == <<v>>
IsNone(o) == o = <<>>
Val(o) == o[1]

RECURSIVE SeqMax(_)
SeqMax(s) == IF s = <<>> THEN 0
             ELSE LET m == SeqMax(Tail(s)) IN IF Head(s) > m THEN Head(s) ELSE m

(***************************************************************************)
(* Characters: lower-case letters, an upper-case letter, punctuation and   *)
(* two kinds of whitespace.                                                *)
(***************************************************************************)
Whitespace == {" ", "\t"}
WordChars == {"a", "b", "c", "d", "e", "A"}

\* str.lower() on one character
Lower(c) == IF c = "A" THEN "a" ELSE c

\* str.strip(): leading and trailing whitespace removed
RECURSIVE LStrip(_)
LStrip(s) == IF s # <<>> /\ Head(s) \in Whitespace THEN LStrip(Tail(s)) ELSE s

RECURSIVE RStrip(_)
RStrip(s) == IF s # <<>> /\ s[Len(s)] \in Whitespace
             THEN RStrip(SubSeq(s, 1, Len(s) - 1)) ELSE s

Strip(s) == RStrip(LStrip(s))

\* re.sub(r"[^\w\s]", "", name)
RemovePunctuation(s) == SelectSeq(s, LAMBDA c : c \in WordChars \cup Whitespace)

\* re.sub(r"\s+", " ", name): every maximal run of whitespace becomes one space
RECURSIVE CollapseWhitespace(_)
CollapseWhitespace(s) ==
    IF s = <<>> THEN <<>>
    ELSE IF Head(s) \in Whitespace
         THEN <<" ">> \o CollapseWhitespace(LStrip(s))
         ELSE <<Head(s)>> \o CollapseWhitespace(Tail(s))

\* Database._normalize_name
NormalizeName(name) ==
    LET lowered == [i \in 1..Len(name) |-> Lower(name[i])]
    IN  CollapseWhitespace(RemovePunctuation(Strip(lowered)))

(***************************************************************************)
(* rapidfuzz fuzz.ratio(a, b) = 100 * 2 * LCS(a, b) / (len a + len b),     *)
(* and 100 for two empty strings.  The code compares it with 85; the       *)
(* comparison is kept in integers.                                         *)
(***************************************************************************)
RECURSIVE LCS(_, _)
LCS(a, b) ==
    IF a = <<>> \/ b = <<>> THEN 0
    ELSE IF Head(a) = Head(b) THEN 1 + LCS(Tail(a), Tail(b))
    ELSE LET x == LCS(Tail(a), b)
             y == LCS(a, Tail(b))
         IN  IF x > y THEN x ELSE y

SimilarityThreshold == 85

\* fuzz.ratio(a, b) > 85
SimilarityExceeds(a, b) ==
    IF Len(a) + Len(b) = 0 THEN 100 > SimilarityThreshold
    ELSE 200 * LCS(a, b) > SimilarityThreshold * (Len(a) + Len(b))

(***************************************************************************)
(* The store: the tables of storage/models.py, each a sequence of rows in  *)
(* primary-key order, and the clock read by datetime.utcnow().             *)
(***************************************************************************)
VARIABLES
    products,          \* Product rows; products[i].id = i (rows are never deleted)
    observations,      \* ProductObservation rows
    supplier_matches,  \* SupplierMatch rows
    alerts,            \* Alert rows
    now,               \* datetime.utcnow(), in hours
    txn,               \* per process: the upsert_product transaction it has open
    check_pc,          \* where the check_alerts coroutine stands
    candidates,        \* check_alerts: the candidates not yet processed
    pending,           \* _send_alert: the alert whose delivery was attempted
    deliveries,        \* what the notifier was asked to deliver
    sched_state,       \* the scheduler: "new", "configured" or "running"
    jobs,              \* job id -> the max_instances the job carries
    instances,         \* job id -> the number of running instances
    batch,             \* the last batch job run and the items of it that raised
    WEIGHTS,           \* CompositeScorer.WEIGHTS, in percent
    response,          \* what GET /products/{id} last answered: the score breakdown
    returned,          \* the last direct call of a scorer or of the store, and its outcome
    retry,             \* the retry_with_backoff coroutine: its locals and what it did
    proxy,             \* the agent's ProxyManager object, and what get_proxy last returned
    scoring_pass       \* a run_scoring of the "score" command: its locals and what it read

dbvars == <<products, observations, supplier_matches, alerts, now>>
alertvars == <<check_pc, candidates, pending, deliveries>>
schedvars == <<sched_state, jobs, instances>>
callvars == <<returned, retry, proxy, scoring_pass>>
vars == <<dbvars, txn, alertvars, schedvars, batch, WEIGHTS, response, callvars>>

(***************************************************************************)
(* ScrapedProduct inputs (storage/models.py).  The raw names normalise to  *)
(* "abc", "abcd" and "abcde": fuzz.ratio("abc", "abcd") = 600/7 = 85.7 and *)
(* fuzz.ratio("abcd", "abcde") = 800/9 = 88.9 exceed 85, and               *)
(* fuzz.ratio("abc", "abcde") = 75 does not.                               *)
(***************************************************************************)
RawNames ==
    { <<"A", "b", "c", "!">>, <<"a", "b", "c", "d">>, <<"a", "b", "c", "d", "e">> }

Categories == { None, Some(""), Some("home"), Some("beauty") }

Sources == {"tiktok_cc", "aliexpress"}

\* <<scraped_at, views, sales>>
Readings ==
    { <<1, Some(1000), None>>,
      <<2, Some(1500), Some(25)>>,
      <<3, None, Some(40)>> }

Scraped(name, category, src, r) ==
    [ source |-> src, source_id |-> "id1", name |-> name, category |-> category,
      price_usd |-> None, views |-> r[2], sales |-> r[3], scraped_at |-> r[1] ]

\* two products, two sources, three readings: the inputs of the observation store
Payloads ==
    { Scraped(n, None, src, r) :
        n \in { <<"A", "b", "c", "!">>, <<"a", "b", "c", "d">> }, src \in Sources, r \in Readings }

\* every name in every category, one source, one reading: the inputs of the resolver
ResolverPayloads ==
    { Scraped(n, c, "tiktok_cc", <<1, Some(1000), None>>) : n \in RawNames, c \in Categories }

(***************************************************************************)
(* Database._find_matching_product: Some(product id) or None.  The exact   *)
(* match ignores the category; the fuzzy match runs only when the scraped  *)
(* category is truthy, over the products of that category in id order.     *)
(***************************************************************************)
Truthy(category) == ~IsNone(category) /\ Val(category) # ""

\* the candidate created last
LastOf(ids) == IF ids = {} THEN None ELSE Some(CHOOSE i \in ids : \A j \in ids : j <= i)

FirstOf(ids) == IF ids = {} THEN None ELSE Some(CHOOSE i \in ids : \A j \in ids : i <= j)

FindMatchingProduct(prods, scraped) ==
    LET normalized_name == NormalizeName(scraped.name)
        exact == { i \in DOMAIN prods : prods[i].canonical_name = normalized_name }
        fuzzy == { i \in DOMAIN prods :
                      /\ prods[i].category = scraped.category
                      /\ SimilarityExceeds(normalized_name, prods[i].canonical_name) }
    IN  IF exact # {} THEN FirstOf(exact)
        ELSE IF Truthy(scraped.category) THEN FirstOf(fuzzy)
        ELSE None

\* Product(canonical_name=..., category=..., first_seen_at=utcnow()) with the column defaults
NewProduct(id, scraped, t) ==
    [ id |-> id, canonical_name |-> NormalizeName(scraped.name),
      category |-> scraped.category, first_seen_at |-> t, last_updated_at |-> t,
      composite_score |-> 0, velocity_score |-> 0, margin_score |-> 0,
      saturation_score |-> 0, is_active |-> TRUE, is_alerted |-> FALSE ]

(***************************************************************************)
(* Database._calculate_deltas.  The query orders the earlier observations  *)
(* of the same product and source by observed_at descending and takes the  *)
(* first; rows with equal observed_at come in an order the query does not  *)
(* fix, so each of them is a possible "previous".                          *)
(***************************************************************************)
PreviousCandidatesAnySource(obs, o) ==
    LET earlier == { i \in DOMAIN obs :
                        /\ obs[i].product_id = o.product_id
                        /\ obs[i].observed_at < o.observed_at }
    IN  { i \in earlier : \A j \in earlier : obs[j].observed_at <= obs[i].observed_at }

PreviousCandidates(obs, o) ==
    LET earlier == { i \in DOMAIN obs :
                        /\ obs[i].product_id = o.product_id
                        /\ obs[i].source = o.source
                        /\ obs[i].observed_at < o.observed_at }
    IN  { i \in earlier : \A j \in earlier : obs[j].observed_at <= obs[i].observed_at }

Delta(new, old) == IF ~IsNone(new) /\ ~IsNone(old) THEN Some(Val(new) - Val(old)) ELSE None

\* the observation with its deltas set from the chosen previous row
WithDeltas(o, previous) ==
    [o EXCEPT !.views_delta = Delta(o.views, previous.views),
              !.sales_delta = Delta(o.sales, previous.sales)]

\* the set of observations _calculate_deltas can leave in o
CalculateDeltas(obs, o) ==
    IF PreviousCandidates(obs, o) = {} THEN {o}
    ELSE { WithDeltas(o, obs[i]) : i \in PreviousCandidates(obs, o) }

NextId(rows) == SeqMax([i \in DOMAIN rows |-> rows[i].id]) + 1

\* ProductObservation(...) as upsert_product builds it, before the deltas
NewObservation(id, product_id, scraped) ==
    [ id |-> id, product_id |-> product_id, source |-> scraped.source,
      source_product_id |-> scraped.source_id, observed_at |-> scraped.scraped_at,
      price_usd |-> scraped.price_usd, views |-> scraped.views, sales |-> scraped.sales,
      views_delta |-> None, sales_delta |-> None ]

\* the deltas of the stored later observations recomputed against the new one
AddObservationRecomputing(obs, o) ==
    Append([i \in DOMAIN obs |->
                IF /\ obs[i].product_id = o.product_id
                   /\ obs[i].source = o.source
                   /\ obs[i].observed_at > o.observed_at
                THEN [obs[i] EXCEPT !.views_delta = IF obs[i].views # None /\ o.views # None
                                                    THEN <<obs[i].views[1] - o.views[1]>>
                                                    ELSE None]
                ELSE obs[i]], o)

\* session.add(observation); session.commit()
AddObservation(obs, o) == Append(obs, o)

\* the matched product stamped with the observation's time instead of the clock
ResolveOrCreateStampingObservedAt(prods, existing, scraped, t) ==
    IF ~IsNone(existing)
    THEN [prods EXCEPT ![Val(existing)].last_updated_at = scraped.scraped_at]
    ELSE Append(prods, NewProduct(Len(prods) + 1, scraped, t))

\* the products table after the resolve-or-create step, given the resolver's answer
ResolveOrCreate(prods, existing, scraped, t) ==
    IF ~IsNone(existing)
    THEN [prods EXCEPT ![Val(existing)].last_updated_at = t]
    ELSE Append(prods, NewProduct(Len(prods) + 1, scraped, t))

ResolvedId(prods, existing) == IF ~IsNone(existing) THEN Val(existing) ELSE Len(prods) + 1

(***************************************************************************)
(* Database.upsert_product, run alone (one session, one transaction).      *)
(***************************************************************************)
UpsertProduct(scraped) ==
    /\ Len(observations) < MaxObservations
    /\ LET existing == FindMatchingProduct(products, scraped)
           pid == ResolvedId(products, existing)
           base == NewObservation(NextId(observations), pid, scraped)
       IN  /\ products' = ResolveOrCreate(products, existing, scraped, now)
           /\ \E o \in CalculateDeltas(observations, base) :
                  observations' = AddObservation(observations, o)
    /\ UNCHANGED <<supplier_matches, alerts, now, txn, alertvars, schedvars, batch, WEIGHTS, callvars, response>>

\* the clock advances
Tick ==
    /\ now < MaxTime
    /\ now' = now + 1
    /\ UNCHANGED <<products, observations, supplier_matches, alerts, txn, alertvars,
                   schedvars, batch, WEIGHTS, callvars, response>>

(***************************************************************************)
(* Database.upsert_product run by two processes on the same database (the  *)
(* scheduler and a manual "agent" run of __main__.py), each in a session   *)
(* of its own.  The session reads what is committed; its INSERTs and       *)
(* UPDATEs are flushed in its transaction and become visible at commit.    *)
(***************************************************************************)
Workers == {"scheduler", "cli"}

IdleTxn == [pc |-> "idle", scraped |-> None, existing |-> None]

InFlight == Cardinality({w \in Workers : txn[w].pc # "idle"})

\* session(): upsert_product up to the answer of _find_matching_product
UpsertBegin(w, scraped) ==
    /\ txn[w].pc = "idle"
    /\ Len(observations) + InFlight < MaxObservations
    /\ txn' = [txn EXCEPT ![w] = [pc |-> "resolved", scraped |-> Some(scraped),
                                  existing |-> FindMatchingProduct(products, scraped)]]
    /\ UNCHANGED <<dbvars, alertvars, schedvars, batch, WEIGHTS, callvars, response>>

\* the rest of upsert_product: create or touch the product, add the observation, commit
UpsertCommit(w) ==
    /\ txn[w].pc = "resolved"
    /\ LET scraped == Val(txn[w].scraped)
           existing == txn[w].existing
           pid == ResolvedId(products, existing)
           base == NewObservation(NextId(observations), pid, scraped)
       IN  /\ products' = ResolveOrCreate(products, existing, scraped, now)
           /\ \E o \in CalculateDeltas(observations, base) :
                  observations' = AddObservation(observations, o)
    /\ txn' = [txn EXCEPT ![w] = IdleTxn]
    /\ UNCHANGED <<supplier_matches, alerts, now, alertvars, schedvars, batch, WEIGHTS, callvars, response>>

(***************************************************************************)
(* Database.save_supplier_match.  supplier_data is the dict of the         *)
(* supplier matcher; a missing "url" key reads as "".  Prices are in cents.*)
(***************************************************************************)
MaxSupplierMatches == 2

SupplierData ==
    { [source |-> "aliexpress", url |-> u, min_price |-> Some(p), shipping_estimate |-> Some(s)] :
        u \in {None, Some("https://supplier.test/item")}, p \in {800, 750}, s \in {200} }

DictGet(value, default) == IF IsNone(value) THEN default ELSE Val(value)

NewSupplierMatch(id, product_id, supplier_data, t) ==
    [ id |-> id, product_id |-> product_id,
      supplier_source |-> supplier_data.source,
      supplier_url |-> DictGet(supplier_data.url, ""),
      supplier_price_usd |-> supplier_data.min_price,
      shipping_cost_usd |-> supplier_data.shipping_estimate,
      matched_at |-> t ]

SaveSupplierMatch(product_id, supplier_data) ==
    /\ Len(supplier_matches) < MaxSupplierMatches
    /\ supplier_matches' =
          Append(supplier_matches,
                 NewSupplierMatch(NextId(supplier_matches), product_id, supplier_data, now))
    /\ UNCHANGED <<products, observations, alerts, now, txn, alertvars, schedvars, batch, WEIGHTS, callvars, response>>

(***************************************************************************)
(* Scoring.  A score as a scorer returns it or as a table stores it is      *)
(* rounded to one decimal and counted in tenths of a point; the composite   *)
(* before rounding is a sum of score * weight and is counted in             *)
(* thousandths of a point (weights in percent).  The three dimension        *)
(* scorers read the observations' metrics, the supplier prices and the     *)
(* product's age; here their results are the inputs.                       *)
(***************************************************************************)
WeightVelocity == 35
WeightMargin == 30
WeightSaturation == 35

\* CompositeScorer.WEIGHTS as the class defines it
DefaultWeights ==
    [velocity |-> WeightVelocity, margin |-> WeightMargin, saturation |-> WeightSaturation]

\* the scores of the three dimensions, and the signals
DimensionResults ==
    { [velocity |-> 1000, margin |-> 500, saturation |-> 1000, signals |-> {"no_supplier_data"}],
      [velocity |-> 700, margin |-> 600, saturation |-> 800, signals |-> {"healthy_net_margin"}],
      [velocity |-> 1000, margin |-> 100, saturation |-> 1000, signals |-> {"unprofitable"}],
      [velocity |-> 500, margin |-> 500, saturation |-> 500, signals |-> {"no_supplier_data"}] }

\* the step function with the saturated override applied before the unprofitable one
ClassifySaturatedFirst(score, signals) ==
    IF "saturated" \in signals /\ score < 60 * 1000 THEN "too_late"
    ELSE IF "unprofitable" \in signals THEN "pass"
    ELSE IF score >= 80 * 1000 THEN "strong_buy"
    ELSE IF score >= 65 * 1000 THEN "buy"
    ELSE IF score >= 50 * 1000 THEN "watch"
    ELSE IF score >= 35 * 1000 THEN "pass"
    ELSE "too_late"

\* CompositeScorer._classify
Classify(score, signals) ==
    IF "unprofitable" \in signals THEN "pass"
    ELSE IF "saturated" \in signals /\ score < 60 * 1000 THEN "too_late"
    ELSE IF score >= 80 * 1000 THEN "strong_buy"
    ELSE IF score >= 65 * 1000 THEN "buy"
    ELSE IF score >= 50 * 1000 THEN "watch"
    ELSE IF score >= 35 * 1000 THEN "pass"
    ELSE "too_late"

\* round(x, 1) of a value in thousandths that is no tie, in tenths
Round1(x) == (x + 50) \div 100

\* CompositeScorer.score_product, from the dimension results on
ScoreProduct(d) ==
    LET composite == d.velocity * WEIGHTS.velocity + d.margin * WEIGHTS.margin
                     + d.saturation * WEIGHTS.saturation
    IN  [ composite_score |-> Round1(composite),
          velocity_score |-> d.velocity,
          margin_score |-> d.margin,
          saturation_score |-> d.saturation,
          signals |-> d.signals,
          recommendation |-> Classify(composite, d.signals) ]

(***************************************************************************)
(* The dimension scorers.  Growth rates, acceleration and the large        *)
(* creator ratio are counted in percent, money in cents, the net margin    *)
(* before rounding in thousandths of a cent.  The inputs of the model are  *)
(* chosen so that no rounding meets a tie.                                 *)
(***************************************************************************)
Min(a, b) == IF a < b THEN a ELSE b
Max(a, b) == IF a > b THEN a ELSE b

\* round(a / b) for b > 0, away from ties
RoundDiv(a, b) == (2 * a + b) \div (2 * b)

\* the sum of the baseline and the three contributions, not clamped
VelocityCompositeScoreUnclamped(metrics) ==
    500 + Min(300, Max(-200, DictGet(metrics.views_growth_rate, 0) * 6))
        + Min(250, Max(-150, DictGet(metrics.sales_growth_rate, 0) * 5))
        + Min(200, Max(-100, DictGet(metrics.acceleration, 0) * 10))

\* VelocityScorer._composite_score, in tenths; a metric that is absent counts 0
VelocityCompositeScore(metrics) ==
    LET views_growth == DictGet(metrics.views_growth_rate, 0)
        sales_growth == DictGet(metrics.sales_growth_rate, 0)
        acceleration == DictGet(metrics.acceleration, 0)
        score == 500 + Min(300, Max(-200, views_growth * 6))
                     + Min(250, Max(-150, sales_growth * 5))
                     + Min(200, Max(-100, acceleration * 10))
    IN  Max(0, Min(1000, score))

\* the signals VelocityScorer.calculate derives from the metrics
VelocitySignals(metrics) ==
    (IF ~IsNone(metrics.views_growth_rate) /\ Val(metrics.views_growth_rate) > 50
     THEN {"rapid_view_growth"}
     ELSE IF ~IsNone(metrics.views_growth_rate) /\ Val(metrics.views_growth_rate) < -10
     THEN {"declining_views"} ELSE {})
    \cup (IF ~IsNone(metrics.sales_growth_rate) /\ Val(metrics.sales_growth_rate) > 30
          THEN {"strong_sales_velocity"} ELSE {})
    \cup (IF ~IsNone(metrics.acceleration) /\ Val(metrics.acceleration) > 10
          THEN {"accelerating"}
          ELSE IF ~IsNone(metrics.acceleration) /\ Val(metrics.acceleration) < -10
          THEN {"decelerating"} ELSE {})

\* VelocityScorer.calculate from the metrics on; None stands for fewer than two
\* observations
VelocityCalculate(velocity) ==
    IF IsNone(velocity)
    THEN [score |-> 0, signals |-> {"insufficient_data"}]
    ELSE [score |-> VelocityCompositeScore(Val(velocity)),
          signals |-> VelocitySignals(Val(velocity))]

\* a score whose base rises with the number of creators
SaturationCompositeScoreRising(creator_count, days_active, large_creator_ratio) ==
    LET base == IF creator_count <= 5 THEN 10
                ELSE IF creator_count <= 10 THEN 25
                ELSE IF creator_count <= 25 THEN 40
                ELSE IF creator_count <= 50 THEN 60
                ELSE IF creator_count <= 100 THEN 75
                ELSE 90
        time_bonus == IF days_active <= 2 THEN 10
                      ELSE IF days_active <= 5 THEN 5
                      ELSE IF days_active <= 14 THEN 0
                      ELSE -10
    IN  Max(0, Min(1000, base * 10 + time_bonus * 10))

\* SaturationScorer._composite_score, in tenths
SaturationCompositeScore(creator_count, days_active, large_creator_ratio) ==
    LET base == IF creator_count <= 5 THEN 90
                ELSE IF creator_count <= 10 THEN 75
                ELSE IF creator_count <= 25 THEN 60
                ELSE IF creator_count <= 50 THEN 40
                ELSE IF creator_count <= 100 THEN 25
                ELSE 10
        time_bonus == IF days_active <= 2 THEN 10
                      ELSE IF days_active <= 5 THEN 5
                      ELSE IF days_active <= 14 THEN 0
                      ELSE -10
        large_penalty == RoundDiv(large_creator_ratio * 15, 10)
    IN  Max(0, Min(1000, base * 10 + time_bonus * 10 - large_penalty))

\* SaturationScorer.calculate(creator_count, days_since_first_seen), no creator_data
SaturationCalculate(creator_count, days_since_first_seen) ==
    LET adoption == IF days_since_first_seen > 0
                    THEN IF creator_count > 10 * days_since_first_seen THEN {"viral_adoption"}
                         ELSE IF creator_count > 5 * days_since_first_seen THEN {"rapid_adoption"}
                         ELSE IF creator_count > 2 * days_since_first_seen THEN {"growing_adoption"}
                         ELSE {"slow_adoption"}
                    ELSE {}
        stage == IF creator_count < 5 /\ days_since_first_seen < 3 THEN {"very_early"}
                 ELSE IF creator_count < 20 /\ days_since_first_seen < 7 THEN {"early_stage"}
                 ELSE IF creator_count < 50 THEN {"growth_stage"}
                 ELSE {"saturated"}
    IN  [score |-> SaturationCompositeScore(creator_count, days_since_first_seen, 0),
         signals |-> adoption \cup stage]

\* MarginScorer._composite_score, in tenths: net_margin_percent in thousandths
\* (it is rounded to three decimals), net_margin_usd in cents
MarginCompositeScore(net_margin_percent, net_margin_usd) ==
    IF net_margin_percent < 0
    THEN Max(0, 200 + net_margin_percent)
    ELSE LET score == 20000 + Min(80000, net_margin_percent * 133)
                      + (IF net_margin_usd > 1500 THEN 5000 ELSE 0)
         IN  RoundDiv(Min(100000, score), 100)

\* the margin result with "unprofitable" decided on the gross margin
MarginCalculateOnGross(selling_price, supplier_price, shipping_cost) ==
    LET gross_margin_usd == selling_price - supplier_price - shipping_cost
        net_margin == 741 * selling_price - 1000 * (supplier_price + shipping_cost) - 30000
    IN  [score |-> MarginCompositeScore(RoundDiv(net_margin, selling_price),
                                        RoundDiv(net_margin, 1000)),
         net_margin |-> net_margin,
         signals |-> IF gross_margin_usd < 0 THEN {"tight_margins", "unprofitable"}
                     ELSE {"tight_margins"}]

\* MarginScorer.calculate(selling_price, supplier_price, shipping_cost) with the
\* default fees: 8% platform, 2.9% + $0.30 payment, 15% advertising.  Without a
\* positive selling price it returns the score 0.0 and no_price_data.
MarginCalculate(selling_price, supplier_price, shipping_cost) ==
    IF selling_price <= 0
    THEN [score |-> 0, net_margin |-> 0, signals |-> {"no_price_data"}]
    ELSE
    LET total_cost == supplier_price + shipping_cost
        gross_margin_usd == selling_price - total_cost
        net_margin == 741 * selling_price - 1000 * total_cost - 30000
        break_even_cpa == 891 * selling_price - 1000 * total_cost - 30000
        signals ==
            (IF 2 * gross_margin_usd >= selling_price THEN {"high_gross_margin"} ELSE {})
            \cup (IF net_margin >= 200 * selling_price THEN {"healthy_net_margin"} ELSE {})
            \cup (IF break_even_cpa >= 1000000 THEN {"room_for_ads"} ELSE {})
            \cup (IF net_margin < 100 * selling_price THEN {"tight_margins"} ELSE {})
            \cup (IF net_margin < 0 THEN {"unprofitable"} ELSE {})
    IN  [score |-> MarginCompositeScore(RoundDiv(net_margin, selling_price),
                                        RoundDiv(net_margin, 1000)),
         net_margin |-> net_margin,
         signals |-> signals]

RECURSIVE InIdOrder(_)
InIdOrder(ids) ==
    IF ids = {} THEN <<>>
    ELSE LET m == CHOOSE i \in ids : \A j \in ids : i <= j
         IN  <<m>> \o InIdOrder(ids \ {m})

\* Database.get_products_for_scoring(min_observations=2)
ProductsForScoring ==
    { i \in DOMAIN products :
        Cardinality({ k \in DOMAIN observations : observations[k].product_id = i }) >= 2 }

\* Database.update_product_scores
UpdateProductScores(product, score, t) ==
    [product EXCEPT !.composite_score = score.composite_score,
                    !.velocity_score = score.velocity_score,
                    !.margin_score = score.margin_score,
                    !.saturation_score = score.saturation_score,
                    !.last_updated_at = t]

\* no batch job has run yet
NoBatch == [job |-> "none", size |-> 0, failed |-> {}]

\* what one item of run_scoring comes to: the dimension results, or None when
\* reading, scoring or storing it raised
ScoringOutcomes == {None} \cup { Some(d) : d \in DimensionResults }

\* the loop stopped by the first item that raises
ScoreAllAborting(prods, ids, outcome, t) ==
    [i \in DOMAIN prods |->
        IF \E k \in DOMAIN ids :
              ids[k] = i /\ \A m \in 1..k : ~IsNone(outcome[m])
        THEN LET k == CHOOSE k \in DOMAIN ids : ids[k] = i
             IN  UpdateProductScores(prods[i], ScoreProduct(Val(outcome[k])), t)
        ELSE prods[i]]

\* the loop of run_scoring: try: score and update; except: log
ScoreAll(prods, ids, outcome, t) ==
    [i \in DOMAIN prods |->
        IF \E k \in DOMAIN ids : ids[k] = i /\ ~IsNone(outcome[k])
        THEN LET k == CHOOSE k \in DOMAIN ids : ids[k] = i
             IN  UpdateProductScores(prods[i], ScoreProduct(Val(outcome[k])), t)
        ELSE prods[i]]

\* JobCoordinator.run_scoring: it awaits nothing, so it runs in one piece
RunScoring ==
    /\ ProductsForScoring # {}
    /\ LET ids == InIdOrder(ProductsForScoring)
       IN  \E outcome \in [DOMAIN ids -> ScoringOutcomes] :
              /\ products' = ScoreAll(products, ids, outcome, now)
              /\ batch' = [job |-> "scoring", size |-> Len(ids),
                           failed |-> {k \in DOMAIN ids : IsNone(outcome[k])}]
    /\ UNCHANGED <<observations, supplier_matches, alerts, now, txn, alertvars, schedvars, WEIGHTS, callvars, response>>

(***************************************************************************)
(* CompositeScorer.score_product from what it reads on: the velocity       *)
(* metrics of the observations (None for fewer than two observations), the *)
(* supplier data (None when there is no SupplierMatch), the latest         *)
(* positive price of the observations (0 when there is none), the          *)
(* estimated creator count and the days since first_seen_at.               *)
(***************************************************************************)
DimensionsOf(inputs) ==
    LET velocity_result == VelocityCalculate(inputs.velocity)
        has_supplier == /\ ~IsNone(inputs.supplier)
                        /\ ~IsNone(Val(inputs.supplier).min_price)
                        /\ Val(Val(inputs.supplier).min_price) # 0
        margin_result ==
            MarginCalculate(inputs.selling_price, Val(Val(inputs.supplier).min_price),
                            Val(inputs.supplier).shipping_estimate)
        margin_score == IF has_supplier /\ inputs.selling_price > 0
                        THEN margin_result.score ELSE 500
        margin_signals == IF ~has_supplier THEN {"no_supplier_data"}
                          ELSE IF inputs.selling_price > 0 THEN margin_result.signals
                          ELSE {"no_price_data"}
        saturation_result == SaturationCalculate(inputs.creator_count,
                                                 Max(1, inputs.days_active))
    IN  [ velocity |-> velocity_result.score,
          margin |-> margin_score,
          saturation |-> saturation_result.score,
          signals |-> velocity_result.signals \cup margin_signals
                      \cup saturation_result.signals ]

\* GET /products/{product_id}: the product is scored and the breakdown returned;
\* nothing is stored
GetProduct(product_id, inputs) ==
    /\ product_id \in DOMAIN products
    /\ response' = Some([ product_id |-> product_id, inputs |-> inputs,
                          score |-> ScoreProduct(DimensionsOf(inputs)) ])
    /\ UNCHANGED <<dbvars, txn, alertvars, schedvars, batch, WEIGHTS, callvars>>

(***************************************************************************)
(* JobCoordinator.run_agent, from the fetched list on: every item is       *)
(* stored by upsert_product inside a try/except of its own.  An            *)
(* upsert_product that raises rolls its session back and stores nothing.   *)
(***************************************************************************)
MaxStored == 4
MaxFetched == 2

\* the store <<products, observations>> after one upsert_product
UpsertResults(prods, obs, scraped, t) ==
    LET existing == FindMatchingProduct(prods, scraped)
        base == NewObservation(NextId(obs), ResolvedId(prods, existing), scraped)
    IN  { <<ResolveOrCreate(prods, existing, scraped, t), AddObservation(obs, o)>> :
            o \in CalculateDeltas(obs, base) }

\* the store loop of run_agent: raised[k] tells whether item k raised
RECURSIVE StoreAll(_, _, _, _, _)
StoreAll(prods, obs, items, raised, t) ==
    IF items = <<>> THEN { <<prods, obs>> }
    ELSE IF Head(raised) THEN StoreAll(prods, obs, Tail(items), Tail(raised), t)
    ELSE UNION { StoreAll(r[1], r[2], Tail(items), Tail(raised), t) :
                    r \in UpsertResults(prods, obs, Head(items), t) }

RunAgent(items) ==
    /\ Len(observations) + Len(items) <= MaxStored
    /\ \E raised \in [DOMAIN items -> BOOLEAN] :
          /\ \E r \in StoreAll(products, observations, items, raised, now) :
                 products' = r[1] /\ observations' = r[2]
          /\ batch' = [job |-> "agent", size |-> Len(items),
                       failed |-> {k \in DOMAIN items : raised[k]}]
    /\ UNCHANGED <<supplier_matches, alerts, now, txn, alertvars, schedvars, WEIGHTS, callvars, response>>

(***************************************************************************)
(* Database.upsert_product with the places where it can raise.  Its        *)
(* session is one transaction up to the commit of upsert_product: the new  *)
(* Product is flushed into it, the change of last_updated_at and the       *)
(* observation are pending in it.  session() rolls the transaction back    *)
(* when the block raises.  session.refresh comes after the commit.         *)
(***************************************************************************)
\* where upsert_product raises: in _find_matching_product, in the flush of the new
\* Product, in _calculate_deltas, in the commit that inserts the observation, in
\* the refresh after the commit
FailurePoints == {"find", "flush", "deltas", "commit", "refresh"}

\* the exception handler that leaves what the transaction had written
SessionKeepWritten(committed, written) == written

\* session(): except Exception: session.rollback(); raise
SessionRollback(committed, written) == committed

\* the store <<products, observations>> as the transaction has written it when
\* upsert_product raises at the point, "after" being what a whole run writes
WrittenAt(point, prods, obs, after) ==
    CASE point = "find" -> <<prods, obs>>
      [] point = "flush" -> <<prods, obs>>
      [] point = "deltas" -> <<after[1], obs>>
      [] point = "commit" -> after
      [] point = "refresh" -> after

\* the store a call of upsert_product leaves: outcome is "stored" or the point
\* where it raised
UpsertOutcome(outcome, prods, obs, after) ==
    IF outcome = "stored" THEN after
    ELSE IF outcome = "refresh" THEN SessionRollback(after, after)
    ELSE SessionRollback(<<prods, obs>>, WrittenAt(outcome, prods, obs, after))

UpsertProductCall(scraped, outcome) ==
    /\ Len(observations) < MaxObservations
    /\ outcome = "flush" => IsNone(FindMatchingProduct(products, scraped))
    /\ \E after \in UpsertResults(products, observations, scraped, now) :
          LET left == UpsertOutcome(outcome, products, observations, after)
          IN  products' = left[1] /\ observations' = left[2]
    /\ returned' = Some([ call |-> "upsert_product", args |-> scraped, value |-> outcome ])
    /\ UNCHANGED <<supplier_matches, alerts, now, txn, alertvars, schedvars, batch, WEIGHTS,
                   response, retry, proxy, scoring_pass>>

(***************************************************************************)
(* The alert gate.                                                         *)
(***************************************************************************)
MinCompositeScore == 70
MinHoursBetweenAlerts == 1
MaxDeliveries == 3

\* Database.get_alert_candidates: Product outer-joined with Alert, filtered row by
\* row, grouped by Product.id
GetAlertCandidates(prods, als, min_score, cooldown_hours, t) ==
    LET cutoff == t - cooldown_hours
    IN  { i \in DOMAIN prods :
            /\ prods[i].composite_score >= min_score * 10
            /\ prods[i].is_active
            /\ \/ \A k \in DOMAIN als : als[k].product_id # i
               \/ \E k \in DOMAIN als : als[k].product_id = i /\ als[k].sent_at < cutoff }

\* one Alert row per product, overwritten by every further alert
RecordAlertRowReplacing(als, product_id, score, t) ==
    IF \E k \in DOMAIN als : als[k].product_id = product_id
    THEN [k \in DOMAIN als |->
             IF als[k].product_id = product_id
             THEN [als[k] EXCEPT !.sent_at = t, !.alert_type = score.recommendation,
                                 !.composite_score_at_alert = score.composite_score]
             ELSE als[k]]
    ELSE Append(als, [ id |-> Len(als) + 1, product_id |-> product_id,
                       alert_type |-> score.recommendation, channel |-> "discord",
                       sent_at |-> t, composite_score_at_alert |-> score.composite_score ])

\* Database.record_alert: the rows of the two tables after it
RecordAlertRow(als, product_id, score, t) ==
    Append(als, [ id |-> NextId(als), product_id |-> product_id,
                  alert_type |-> score.recommendation, channel |-> "discord",
                  sent_at |-> t, composite_score_at_alert |-> score.composite_score ])

\* is_alerted = True; the UPDATE it causes also sets last_updated_at (onupdate)
MarkAlerted(prods, product_id, t) ==
    IF product_id \in DOMAIN prods /\ ~prods[product_id].is_alerted
    THEN [prods EXCEPT ![product_id].is_alerted = TRUE, ![product_id].last_updated_at = t]
    ELSE prods

AfterCandidate == IF Tail(candidates) = <<>> THEN "idle" ELSE "candidate"

\* check_alerts up to its loop: the candidates are read once
CheckAlertsBegin ==
    /\ check_pc = "idle"
    /\ Len(deliveries) < MaxDeliveries
    /\ LET found == GetAlertCandidates(products, alerts, MinCompositeScore,
                                       MinHoursBetweenAlerts, now)
       IN  /\ candidates' = InIdOrder(found)
           /\ check_pc' = IF found = {} THEN "idle" ELSE "candidate"
    /\ UNCHANGED <<dbvars, txn, pending, deliveries, schedvars, batch, WEIGHTS, callvars, response>>

\* one candidate: it is scored again and delivered whatever the recommendation
AlertDeliverAnyTier ==
    /\ check_pc = "candidate"
    /\ Len(deliveries) < MaxDeliveries
    /\ \E d \in DimensionResults :
          /\ deliveries' = Append(deliveries, [product_id |-> Head(candidates), at |-> now])
          /\ pending' = Some([product_id |-> Head(candidates), score |-> ScoreProduct(d)])
          /\ check_pc' = "delivering"
          /\ UNCHANGED candidates
    /\ UNCHANGED <<dbvars, txn, schedvars, batch, WEIGHTS, callvars, response>>

\* one candidate: it is scored again, and _send_alert asks the notifier to
\* deliver when the recommendation is actionable; the coroutine then awaits
\* the notifier's answer
AlertDeliver ==
    /\ check_pc = "candidate"
    /\ Len(deliveries) < MaxDeliveries
    /\ \E d \in DimensionResults :
          LET score == ScoreProduct(d)
          IN  IF score.recommendation \in {"strong_buy", "buy"}
              THEN /\ deliveries' = Append(deliveries, [product_id |-> Head(candidates), at |-> now])
                   /\ pending' = Some([product_id |-> Head(candidates), score |-> score])
                   /\ check_pc' = "delivering"
                   /\ UNCHANGED candidates
              ELSE /\ candidates' = Tail(candidates)
                   /\ check_pc' = AfterCandidate
                   /\ UNCHANGED <<pending, deliveries>>
    /\ UNCHANGED <<dbvars, txn, schedvars, batch, WEIGHTS, callvars, response>>

\* the notifier answers (sent or not); _send_alert records the alert when sent
AlertRecord ==
    /\ check_pc = "delivering"
    /\ \E sent \in BOOLEAN :
          LET p == Val(pending)
          IN  IF sent
              THEN /\ alerts' = RecordAlertRow(alerts, p.product_id, p.score, now)
                   /\ products' = MarkAlerted(products, p.product_id, now)
              ELSE UNCHANGED <<alerts, products>>
    /\ pending' = None
    /\ candidates' = Tail(candidates)
    /\ check_pc' = AfterCandidate
    /\ UNCHANGED <<observations, supplier_matches, now, txn, deliveries, schedvars, batch, WEIGHTS, callvars, response>>

(***************************************************************************)
(* Cleanup.  JobCoordinator.cleanup_old_data(days) deletes the             *)
(* observations older than now - days; nothing else is deleted.            *)
(***************************************************************************)
RetentionChoices == {0, 1}

\* Database.cleanup_old_observations(cutoff_date)
CleanupOldObservations(obs, cutoff_date) ==
    SelectSeq(obs, LAMBDA o : ~(o.observed_at < cutoff_date))

\* what cleanup_old_observations returns: the row count of its DELETE
CleanupDeleted(obs, cutoff_date) ==
    Cardinality({ k \in DOMAIN obs : obs[k].observed_at < cutoff_date })

\* JobCoordinator.cleanup_old_data
CleanupOldData(days) ==
    /\ observations' = CleanupOldObservations(observations, now - days)
    /\ UNCHANGED <<products, supplier_matches, alerts, now, txn, alertvars, schedvars, batch, WEIGHTS, callvars, response>>

(***************************************************************************)
(* The job scheduler.  JobScheduler creates AsyncIOScheduler() without     *)
(* options, so the scheduler's job defaults are the library's; add_job is  *)
(* called without max_instances, so a job carries none until the scheduler *)
(* starts and fills in its defaults.                                       *)
(***************************************************************************)
JobIds == { "tiktok_cc_scrape", "tiktok_shop_scrape", "supplier_match", "amazon_scrape",
            "scoring", "alerts", "cleanup" }

JobDefaults == [coalesce |-> TRUE, max_instances |-> 1, misfire_grace_time |-> 1]

\* JobScheduler.configure_jobs: seven add_job calls, none passing max_instances
ConfigureJobs ==
    /\ sched_state \in {"new", "configured"}
    /\ jobs' = [j \in JobIds |-> [added |-> TRUE, max_instances |-> None]]
    /\ sched_state' = "configured"
    /\ UNCHANGED <<dbvars, txn, alertvars, instances, batch, WEIGHTS, callvars, response>>

\* JobScheduler.start: the pending jobs are added with the defaults filled in
Start ==
    /\ sched_state = "configured"
    /\ jobs' = [j \in JobIds |->
                   IF jobs[j].added /\ IsNone(jobs[j].max_instances)
                   THEN [jobs[j] EXCEPT !.max_instances = Some(JobDefaults.max_instances)]
                   ELSE jobs[j]]
    /\ sched_state' = "running"
    /\ UNCHANGED <<dbvars, txn, alertvars, instances, batch, WEIGHTS, callvars, response>>

\* a trigger fires: the job is submitted unless max_instances of it are running
Fire(j) ==
    /\ sched_state = "running"
    /\ jobs[j].added
    /\ instances' = IF instances[j] < Val(jobs[j].max_instances)
                    THEN [instances EXCEPT ![j] = @ + 1]
                    ELSE instances
    /\ UNCHANGED <<dbvars, txn, alertvars, sched_state, jobs, batch, WEIGHTS, callvars, response>>

\* a running instance of the job returns
Finish(j) ==
    /\ instances[j] > 0
    /\ instances' = [instances EXCEPT ![j] = @ - 1]
    /\ UNCHANGED <<dbvars, txn, alertvars, sched_state, jobs, batch, WEIGHTS, callvars, response>>

(***************************************************************************)
(* VelocityScorer.calculate from the observations on.  A growth rate is    *)
(* the compound rate (last / first) ^ (1 / periods) - 1, counted in        *)
(* percent; the series of the model have rates that are whole percents.    *)
(***************************************************************************)
LookbackHours == 72

RECURSIVE Pow(_, _)
Pow(b, e) == IF e = 0 THEN 1 ELSE b * Pow(b, e - 1)

\* the rate g in percent with ((100 + g) / 100) ^ periods <= last / first that
\* the next whole percent exceeds
CompoundRate(first, last, periods) ==
    CHOOSE g \in -100..(100 * last) \div first :
        /\ Pow(100 + g, periods) * first <= last * Pow(100, periods)
        /\ Pow(100 + g + 1, periods) * first > last * Pow(100, periods)

\* the growth from the first to the last value, not compounded
CalculateGrowthRateOverall(values) ==
    LET positive == SelectSeq(values, LAMBDA v : v > 0)
    IN  IF Len(positive) < 2 THEN None
        ELSE Some((100 * positive[Len(positive)]) \div positive[1] - 100)

\* VelocityScorer._calculate_growth_rate: None, or the rate in percent
CalculateGrowthRate(values) ==
    LET positive == SelectSeq(values, LAMBDA v : v > 0)
    IN  IF Len(positive) < 2 THEN None
        ELSE Some(CompoundRate(positive[1], positive[Len(positive)],
                               Len(positive) - 1))

\* sorted(observations, key=lambda x: x.observed_at): a stable sort
RECURSIVE SortedByObservedAt(_)
SortedByObservedAt(obs) ==
    IF obs = <<>> THEN <<>>
    ELSE LET rest == SortedByObservedAt(SubSeq(obs, 1, Len(obs) - 1))
             last == obs[Len(obs)]
             k == Cardinality({ i \in DOMAIN rest : rest[i].observed_at <= last.observed_at })
         IN  SubSeq(rest, 1, k) \o <<last>> \o SubSeq(rest, k + 1, Len(rest))

\* [o.views for o in obs if o.views is not None], and the same for sales
ViewsOf(obs) ==
    LET with == SelectSeq(obs, LAMBDA o : ~IsNone(o.views))
    IN  [i \in DOMAIN with |-> Val(with[i].views)]

SalesOf(obs) ==
    LET with == SelectSeq(obs, LAMBDA o : ~IsNone(o.sales))
    IN  [i \in DOMAIN with |-> Val(with[i].sales)]

\* VelocityScorer._calculate_acceleration: the growth of the second half less
\* that of the first half, a growth that is None counting 0
CalculateAcceleration(obs) ==
    LET mid == Len(obs) \div 2
        first_growth == CalculateGrowthRate(ViewsOf(SubSeq(obs, 1, mid)))
        second_growth == CalculateGrowthRate(ViewsOf(SubSeq(obs, mid + 1, Len(obs))))
    IN  DictGet(second_growth, 0) - DictGet(first_growth, 0)

\* the metrics VelocityScorer.calculate derives from two observations or more
VelocityMetrics(series, t) ==
    LET obs == SortedByObservedAt(series)
        cutoff == t - LookbackHours
        in_window == SelectSeq(obs, LAMBDA o : o.observed_at >= cutoff)
        recent == IF Len(in_window) < 2 THEN SubSeq(obs, Len(obs) - 1, Len(obs))
                  ELSE in_window
    IN  [ views_growth_rate |-> CalculateGrowthRate(ViewsOf(recent)),
          sales_growth_rate |-> CalculateGrowthRate(SalesOf(recent)),
          acceleration |-> IF Len(recent) >= 4 THEN Some(CalculateAcceleration(recent))
                           ELSE None ]

\* VelocityScorer.calculate(observations) at time t
VelocityScorerCalculate(series, t) ==
    IF Len(series) < 2 THEN VelocityCalculate(None)
    ELSE VelocityCalculate(Some(VelocityMetrics(series, t)))

(***************************************************************************)
(* Direct calls of the three dimension scorers: what was called, with      *)
(* what, and what it returned.  The scorers keep no state between calls,   *)
(* so a behaviour makes one call.                                          *)
(***************************************************************************)
MarginCall(selling_price, supplier_price, shipping_cost) ==
    /\ returned = None
    /\ returned' = Some([ call |-> "MarginScorer.calculate",
                          args |-> <<selling_price, supplier_price, shipping_cost>>,
                          value |-> MarginCalculate(selling_price, supplier_price,
                                                    shipping_cost) ])
    /\ UNCHANGED <<dbvars, txn, alertvars, schedvars, batch, WEIGHTS, response,
                   retry, proxy, scoring_pass>>

VelocityCall(series) ==
    /\ returned = None
    /\ returned' = Some([ call |-> "VelocityScorer.calculate",
                          args |-> series,
                          value |-> VelocityScorerCalculate(series, now) ])
    /\ UNCHANGED <<dbvars, txn, alertvars, schedvars, batch, WEIGHTS, response,
                   retry, proxy, scoring_pass>>

SaturationCall(creator_count, days_since_first_seen) ==
    /\ returned = None
    /\ returned' = Some([ call |-> "SaturationScorer.calculate",
                          args |-> <<creator_count, days_since_first_seen>>,
                          value |-> SaturationCalculate(creator_count,
                                                        days_since_first_seen) ])
    /\ UNCHANGED <<dbvars, txn, alertvars, schedvars, batch, WEIGHTS, response,
                   retry, proxy, scoring_pass>>

(***************************************************************************)
(* JobCoordinator.run_scoring run by the "score" command of __main__.py, a *)
(* process of its own beside the scheduler's.  It selects the products in  *)
(* one session and then, product by product, reads the observations in a   *)
(* session of their own, scores and stores; what the scheduler's process   *)
(* commits in between is seen by the later reads.  "had" keeps, for every  *)
(* selected product, the ids of the observations it had when selected, and *)
(* "scored" the ids each product was scored on.                            *)
(***************************************************************************)
ObservationIdsOf(obs, product_id) ==
    { obs[k].id : k \in { j \in DOMAIN obs : obs[j].product_id = product_id } }

PassRunning == ~IsNone(scoring_pass) /\ Val(scoring_pass).selected # <<>>

\* products = self.db.get_products_for_scoring(min_observations=2)
ScoringPassSelect ==
    /\ ~PassRunning
    /\ ProductsForScoring # {}
    /\ scoring_pass' =
          Some([ selected |-> InIdOrder(ProductsForScoring),
                 had |-> [i \in ProductsForScoring |-> ObservationIdsOf(observations, i)],
                 scored |-> <<>> ])
    /\ UNCHANGED <<dbvars, txn, alertvars, schedvars, batch, WEIGHTS, response,
                   returned, retry, proxy>>

\* one turn of the loop: get_observations, score_product, update_product_scores,
\* or an exception that is logged
ScoringPassStep ==
    /\ PassRunning
    /\ LET pass == Val(scoring_pass)
           product_id == Head(pass.selected)
           read == ObservationIdsOf(observations, product_id)
       IN  \E outcome \in ScoringOutcomes :
              /\ products' =
                    IF IsNone(outcome) THEN products
                    ELSE [products EXCEPT ![product_id] =
                             UpdateProductScores(@, ScoreProduct(Val(outcome)), now)]
              /\ scoring_pass' =
                    Some([pass EXCEPT
                            !.selected = Tail(@),
                            !.scored = Append(@, [ product_id |-> product_id,
                                                   read |-> read,
                                                   raised |-> IsNone(outcome) ])])
    /\ UNCHANGED <<observations, supplier_matches, alerts, now, txn, alertvars, schedvars,
                   batch, WEIGHTS, response, returned, retry, proxy>>

(***************************************************************************)
(* RetryManager.retry_with_backoff as a coroutine.  It is suspended in     *)
(* "await func()" and in "await asyncio.sleep(total_delay)"; what lies     *)
(* between two awaits runs in one piece.  Delays are counted in tenths of  *)
(* a second.  "results" keeps what every invocation of func came to,       *)
(* "delays" the delay computed before the jitter for every sleep and       *)
(* "on_retry_calls" the attempt numbers the callback was called with.      *)
(***************************************************************************)
MaxRetries == 4

\* the delay without the cap of max_delay
BackoffUncapped(base_delay, attempt, max_delay) == base_delay * Pow(2, attempt)

\* delay = min(base_delay * (2 ** attempt), max_delay)
Backoff(base_delay, attempt, max_delay) == Min(base_delay * Pow(2, attempt), max_delay)

\* random.uniform(0, delay * 0.1): none or all of the tenth
Jitters(delay) == {0, delay \div 10}

\* the call of retry_with_backoff up to its first await
RetryBegin(max_retries, base_delay, max_delay, on_retry) ==
    /\ IsNone(retry)
    /\ retry' = Some([ max_retries |-> max_retries, base_delay |-> base_delay,
                       max_delay |-> max_delay, on_retry |-> on_retry,
                       attempt |-> 0, pc |-> "func", results |-> <<>>, delays |-> <<>>,
                       on_retry_calls |-> <<>>, total_delay |-> 0, outcome |-> None ])
    /\ UNCHANGED <<dbvars, txn, alertvars, schedvars, batch, WEIGHTS, response,
                   returned, proxy, scoring_pass>>

\* func() returns or raises: the return, or the except clause up to the raise or
\* to the sleep
RetryAttempt ==
    /\ ~IsNone(retry)
    /\ Val(retry).pc = "func"
    /\ LET r == Val(retry)
           call == Len(r.results) + 1
       IN  \E succeeded \in BOOLEAN :
              IF succeeded
              THEN retry' = Some([r EXCEPT !.results = Append(@, "returned"),
                                           !.pc = "returned",
                                           !.outcome = Some([result_of |-> call])])
              ELSE IF r.attempt >= r.max_retries
              THEN retry' = Some([r EXCEPT !.results = Append(@, "raised"),
                                           !.pc = "raised",
                                           !.outcome = Some([exception_of |-> call])])
              ELSE \E jitter \in Jitters(Backoff(r.base_delay, r.attempt, r.max_delay)) :
                      retry' = Some([r EXCEPT
                          !.results = Append(@, "raised"),
                          !.delays = Append(@, Backoff(r.base_delay, r.attempt, r.max_delay)),
                          !.total_delay = Backoff(r.base_delay, r.attempt, r.max_delay) + jitter,
                          !.on_retry_calls = IF r.on_retry THEN Append(@, r.attempt) ELSE @,
                          !.pc = "sleep"])
    /\ UNCHANGED <<dbvars, txn, alertvars, schedvars, batch, WEIGHTS, response,
                   returned, proxy, scoring_pass>>

\* asyncio.sleep(total_delay) is over: the next turn of the for loop
RetryWake ==
    /\ ~IsNone(retry)
    /\ Val(retry).pc = "sleep"
    /\ retry' = Some([Val(retry) EXCEPT !.attempt = @ + 1, !.pc = "func"])
    /\ UNCHANGED <<dbvars, txn, alertvars, schedvars, batch, WEIGHTS, response,
                   returned, proxy, scoring_pass>>

DbInit ==
    /\ products = <<>>
    /\ observations = <<>>
    /\ supplier_matches = <<>>
    /\ alerts = <<>>
    /\ now = 0

\* the coordinator and the scheduler as constructed, before any job
Constructed ==
    /\ DbInit
    /\ txn = [w \in Workers |-> IdleTxn]
    /\ check_pc = "idle"
    /\ candidates = <<>>
    /\ pending = None
    /\ deliveries = <<>>
    /\ sched_state = "new"
    /\ jobs = [j \in JobIds |-> [added |-> FALSE, max_instances |-> None]]
    /\ instances = [j \in JobIds |-> 0]
    /\ batch = NoBatch
    /\ response = None
    /\ returned = None
    /\ retry = None
    /\ proxy = None
    /\ scoring_pass = None

\* CompositeScorer(config) with the default configuration
Init ==
    /\ Constructed
    /\ WEIGHTS = DefaultWeights

\* the "weights" of a scoring configuration: three that sum to 1.0, two that do not
WeightConfigs ==
    { DefaultWeights,
      [velocity |-> 50, margin |-> 30, saturation |-> 20],
      [velocity |-> 0, margin |-> 100, saturation |-> 0],
      [velocity |-> 50, margin |-> 50, saturation |-> 50],
      [velocity |-> 20, margin |-> 20, saturation |-> 20] }

\* CompositeScorer(config): WEIGHTS is whatever the configuration holds
InitConfigured ==
    /\ Constructed
    /\ WEIGHTS \in WeightConfigs

(***************************************************************************)
(* The observation store: upsert_product over Payloads.                    *)
(***************************************************************************)
Ingest == \E scraped \in Payloads : UpsertProduct(scraped)

Next == Ingest \/ Tick

Spec == Init /\ [][Next]_vars

(***************************************************************************)
(* The identity resolver: upsert_product over ResolverPayloads.            *)
(***************************************************************************)
Resolve == \E scraped \in ResolverPayloads : UpsertProduct(scraped)

NextResolve == Resolve \/ Tick

SpecResolve == Init /\ [][NextResolve]_vars

(***************************************************************************)
(* The name normalizer: upsert_product over every name of at most          *)
(* MaxNameLen characters drawn from a letter, its upper case, a space and  *)
(* a punctuation mark.                                                     *)
(***************************************************************************)
MaxNameLen == 3

NameChars == {"a", "A", " ", "!"}

NormalizerNames == UNION { [1..n -> NameChars] : n \in 1..MaxNameLen }

NormalizeIngest ==
    \E name \in NormalizerNames :
        UpsertProduct(Scraped(name, None, "tiktok_cc", <<1, Some(1000), None>>))

NextNormalize == NormalizeIngest \/ Tick

SpecNormalize == Init /\ [][NextNormalize]_vars

(***************************************************************************)
(* Two processes ingesting at the same time.                               *)
(***************************************************************************)
ConcurrentPayloads ==
    { Scraped(n, Some("home"), src, <<1, Some(1000), None>>) :
        n \in { <<"A", "b", "c", "!">>, <<"a", "b", "c">> }, src \in Sources }

Begin == \E w \in Workers, scraped \in ConcurrentPayloads : UpsertBegin(w, scraped)

Commit == \E w \in Workers : UpsertCommit(w)

NextConcurrent == Begin \/ Commit \/ Tick

SpecConcurrent == Init /\ [][NextConcurrent]_vars

(***************************************************************************)
(* Supplier matching: products are ingested and matched with suppliers.    *)
(***************************************************************************)
SupplierPayloads ==
    { Scraped(n, Some("beauty"), "tiktok_cc", <<1, Some(1000), None>>) :
        n \in { <<"a", "b", "c">>, <<"a", "b", "c", "d", "e">> } }

SupplierIngest == \E scraped \in SupplierPayloads : UpsertProduct(scraped)

SaveMatch ==
    \E product_id \in DOMAIN products, supplier_data \in SupplierData :
        SaveSupplierMatch(product_id, supplier_data)

NextSupplier == SupplierIngest \/ SaveMatch \/ Tick

SpecSupplier == Init /\ [][NextSupplier]_vars

(***************************************************************************)
(* Alerting: ingestion, scoring runs and alert checks.                     *)
(***************************************************************************)
AlertPayloads ==
    { Scraped(n, Some("home"), "tiktok_cc", <<1, Some(1000), None>>) :
        n \in { <<"a", "b", "c">>, <<"a", "b", "c", "d", "e">> } }

AlertIngest == \E scraped \in AlertPayloads : UpsertProduct(scraped)

NextAlert == AlertIngest \/ RunScoring \/ CheckAlertsBegin \/ AlertDeliver \/ AlertRecord \/ Tick

SpecAlert == Init /\ [][NextAlert]_vars

(***************************************************************************)
(* The alert history: alerting together with the cleanup job.              *)
(***************************************************************************)
AuditPayloads == { Scraped(<<"a", "b", "c">>, Some("home"), "tiktok_cc", <<1, Some(1000), None>>) }

AuditIngest == \E scraped \in AuditPayloads : UpsertProduct(scraped)

Cleanup == \E days \in RetentionChoices : CleanupOldData(days)

NextAudit ==
    AuditIngest \/ RunScoring \/ CheckAlertsBegin \/ AlertDeliver \/ AlertRecord \/ Cleanup \/ Tick

SpecAudit == Init /\ [][NextAudit]_vars

(***************************************************************************)
(* Batch jobs: scrapes that store what they fetched, and scoring runs, all *)
(* within one hour.                                                        *)
(***************************************************************************)
BatchPayloads ==
    { Scraped(n, Some("home"), "tiktok_cc", <<1, Some(1000), None>>) :
        n \in { <<"a", "b", "c">>, <<"a", "b", "c", "d", "e">> } }

FetchedLists == UNION { [1..n -> BatchPayloads] : n \in 1..MaxFetched }

Scrape == \E items \in FetchedLists : RunAgent(items)

NextBatch == Scrape \/ RunScoring

SpecBatch == Init /\ [][NextBatch]_vars

(***************************************************************************)
(* Scoring under a configured scorer.                                      *)
(***************************************************************************)
NextScoring == Scrape \/ RunScoring

SpecScoring == InitConfigured /\ [][NextScoring]_vars

(***************************************************************************)
(* The scorer behind the API: products are ingested and their score        *)
(* breakdown is asked for, under a configured scorer.                      *)
(***************************************************************************)
VelocityInputs ==
    { None,
      Some([views_growth_rate |-> Some(80), sales_growth_rate |-> Some(60),
            acceleration |-> Some(30)]),
      Some([views_growth_rate |-> Some(-50), sales_growth_rate |-> None,
            acceleration |-> None]) }

SupplierInputs ==
    { None,
      Some([min_price |-> Some(0), shipping_estimate |-> 1200]),
      Some([min_price |-> Some(800), shipping_estimate |-> 200]),
      Some([min_price |-> Some(3000), shipping_estimate |-> 500]) }

ScoreInputs ==
    [ velocity : VelocityInputs, supplier : SupplierInputs,
      selling_price : {0, 1000, 10000},
      creator_count : {3, 30, 150},
      days_active : {0, 20} ]

ApiIngest == \E scraped \in AuditPayloads : UpsertProduct(scraped)

ApiGetProduct ==
    \E product_id \in DOMAIN products, inputs \in ScoreInputs :
        GetProduct(product_id, inputs)

NextApi == ApiIngest \/ ApiGetProduct

SpecApi == InitConfigured /\ [][NextApi]_vars

(***************************************************************************)
(* The dimension scorers called directly.  The observations given to the   *)
(* velocity scorer are a series of views and a series of sales, a day or   *)
(* two days apart, ending now or a hundred hours ago, oldest or newest     *)
(* first.                                                                  *)
(***************************************************************************)
SellingPrices == {-500, 0, 1000, 2500, 10000}
SupplierPrices == {0, 300, 800, 3000}
ShippingCosts == {0, 200, 500, 1200}

ViewsSeries ==
    { <<>>,
      <<Some(1000)>>,
      <<Some(1000), Some(1000)>>,
      <<Some(500), Some(1000), Some(2000)>>,
      <<Some(2000), Some(1000), Some(500)>>,
      <<Some(400), None, Some(900)>>,
      <<Some(0), Some(100), Some(150)>>,
      <<Some(1), Some(1), Some(2), Some(8)>> }

SalesAt(kind, i) ==
    CASE kind = "none" -> None
      [] kind = "flat" -> Some(10)
      [] kind = "doubling" -> Some(5 * Pow(2, i))

ObservationSeries ==
    { [i \in DOMAIN views |->
          LET idx == IF reversed THEN Len(views) + 1 - i ELSE i
          IN  [ observed_at |-> shift - (Len(views) - idx) * spacing,
                views |-> views[idx],
                sales |-> SalesAt(kind, idx) ]] :
        views \in ViewsSeries, kind \in {"none", "flat", "doubling"},
        spacing \in {24, 48}, shift \in {0, -100}, reversed \in BOOLEAN }

MaxCreators == 120
MaxDays == 20

CallMargin ==
    \E selling_price \in SellingPrices, supplier_price \in SupplierPrices,
       shipping_cost \in ShippingCosts :
        MarginCall(selling_price, supplier_price, shipping_cost)

CallVelocity == \E series \in ObservationSeries : VelocityCall(series)

CallSaturation ==
    \E creator_count \in 0..MaxCreators, days \in 0..MaxDays :
        SaturationCall(creator_count, days)

NextScorers == CallMargin \/ CallVelocity \/ CallSaturation

SpecScorers == Init /\ [][NextScorers]_vars

(***************************************************************************)
(* A scoring pass of the "score" command beside the scheduler's process,   *)
(* which ingests and runs the cleanup job.                                 *)
(***************************************************************************)
NextScorePass == AuditIngest \/ Cleanup \/ ScoringPassSelect \/ ScoringPassStep \/ Tick

SpecScorePass == Init /\ [][NextScorePass]_vars

(***************************************************************************)
(* Ingestion with storage errors: every upsert_product is stored or raises *)
(* at one of its failure points.                                           *)
(***************************************************************************)
IngestOrFail ==
    \E scraped \in AlertPayloads, outcome \in {"stored"} \cup FailurePoints :
        UpsertProductCall(scraped, outcome)

NextIngestFailure == IngestOrFail \/ Tick

SpecIngestFailure == Init /\ [][NextIngestFailure]_vars

(***************************************************************************)
(* Retrying.  The event loop resumes a coroutine whose await is over, and  *)
(* func, a page load with a timeout, returns or raises.                    *)
(***************************************************************************)
BaseDelays == {5, 20}
MaxDelays == {60, 600}

Retry ==
    \E max_retries \in 0..MaxRetries, base_delay \in BaseDelays, max_delay \in MaxDelays,
       on_retry \in BOOLEAN :
        RetryBegin(max_retries, base_delay, max_delay, on_retry)

NextRetry == Retry \/ RetryAttempt \/ RetryWake

SpecRetry ==
    Init /\ [][NextRetry]_vars /\ WF_vars(RetryAttempt) /\ WF_vars(RetryWake)

(***************************************************************************)
(* ProxyManager (utils/stealth.py): proxy rotation with sticky sessions.   *)
(* `proxy` holds the manager an agent constructed.  The sticky window is   *)
(* counted in ticks of the clock `now`.  Besides the object's fields the   *)
(* record keeps the number of get_proxy calls made and the value the last  *)
(* call returned.                                                          *)
(***************************************************************************)
MaxProxyCalls == 4

ProxyManagerInit(proxies, sticky_minutes) ==
    /\ proxy = None
    /\ proxy' = Some([proxies             |-> proxies,
                      sticky_minutes      |-> sticky_minutes,
                      current_proxy       |-> None,
                      current_proxy_until |-> None,
                      failed_proxies      |-> {},
                      current_index       |-> 0,
                      calls               |-> 0,
                      value               |-> None])
    /\ UNCHANGED <<dbvars, txn, alertvars, schedvars, batch, WEIGHTS, response,
                   returned, retry, scoring_pass>>

\* available = [p for p in self.proxies if p not in self.failed_proxies]
Available(pm) == SelectSeq(pm.proxies, LAMBDA p : p \notin pm.failed_proxies)

\* get_proxy at time t: the manager afterwards and the value returned
GetProxyOf(pm, t) ==
    IF pm.proxies = <<>>
    THEN [pm |-> pm, value |-> None]
    ELSE IF /\ pm.current_proxy # None
            /\ pm.current_proxy_until # None
            /\ t < pm.current_proxy_until[1]
    THEN [pm |-> pm, value |-> pm.current_proxy]
    ELSE LET reset     == Available(pm) = <<>>
             available == IF reset THEN pm.proxies ELSE Available(pm)
             chosen    == available[(pm.current_index % Len(available)) + 1]
         IN  [pm    |-> [pm EXCEPT !.failed_proxies = IF reset THEN {} ELSE @,
                                   !.current_proxy = Some(chosen),
                                   !.current_index = @ + 1,
                                   !.current_proxy_until = Some(t + pm.sticky_minutes)],
              value |-> Some(chosen)]

GetProxy ==
    /\ proxy # None
    /\ proxy[1].calls < MaxProxyCalls
    /\ LET got == GetProxyOf(proxy[1], now)
       IN  proxy' = Some([got.pm EXCEPT !.calls = @ + 1, !.value = Some(got.value)])
    /\ UNCHANGED <<dbvars, txn, alertvars, schedvars, batch, WEIGHTS, response,
                   returned, retry, scoring_pass>>

MarkFailed(p) ==
    /\ proxy # None
    /\ proxy' = Some([proxy[1] EXCEPT
                        !.failed_proxies = @ \cup {p},
                        !.current_proxy = IF Some(p) = @ THEN None ELSE @,
                        !.current_proxy_until =
                            IF Some(p) = proxy[1].current_proxy THEN None ELSE @])
    /\ UNCHANGED <<dbvars, txn, alertvars, schedvars, batch, WEIGHTS, response,
                   returned, retry, scoring_pass>>

\* the proxy pools and sticky windows an agent is configured with
ProxyPools == { <<>>, <<"p1">>, <<"p1", "p2">>, <<"p1", "p2", "p3">> }

StickyWindows == {0, 1, 2}

NewProxyManager ==
    \E proxies \in ProxyPools, sticky_minutes \in StickyWindows :
        ProxyManagerInit(proxies, sticky_minutes)

\* safe_navigate marks the proxy in use; mark_failed accepts any proxy
ProxyFailed ==
    /\ proxy # None
    /\ \E k \in DOMAIN proxy[1].proxies : MarkFailed(proxy[1].proxies[k])

NextProxy == NewProxyManager \/ GetProxy \/ ProxyFailed \/ Tick

SpecProxy == Init /\ [][NextProxy]_vars

(***************************************************************************)
(* The stored score and its tier.  run_scoring stores the rounded          *)
(* composite_score of the OpportunityScore on the Product;                 *)
(* count_by_recommendation and the recommendation filter of GET /products  *)
(* derive a tier from the stored score (in tenths of a point).             *)
(***************************************************************************)
Tiers == {"strong_buy", "buy", "watch", "pass", "too_late"}

\* the if/elif chain of Database.count_by_recommendation
StoredTier(composite_score) ==
    IF composite_score >= 800 THEN "strong_buy"
    ELSE IF composite_score >= 650 THEN "buy"
    ELSE IF composite_score >= 500 THEN "watch"
    ELSE IF composite_score >= 350 THEN "pass"
    ELSE "too_late"

CountByRecommendation(prods) ==
    [ tier \in Tiers |->
        Cardinality({ i \in DOMAIN prods : StoredTier(prods[i].composite_score) = tier }) ]

\* GET /products?recommendation=...: the products the filter lets through
ListProducts(prods, recommendation) ==
    { i \in DOMAIN prods :
        LET s == prods[i].composite_score
        IN  ~ \/ s >= 800 /\ recommendation # "strong_buy"
              \/ 650 <= s /\ s < 800 /\ recommendation # "buy"
              \/ 500 <= s /\ s < 650 /\ recommendation # "watch"
              \/ 350 <= s /\ s < 500 /\ recommendation # "pass"
              \/ s < 350 /\ recommendation # "too_late" }

\* one round of the loop of run_scoring: the product is scored and the scores
\* of the OpportunityScore are stored on it
ScoreAndStore(product_id, inputs) ==
    /\ product_id \in ProductsForScoring
    /\ LET score == ScoreProduct(DimensionsOf(inputs))
       IN  /\ products' = [products EXCEPT
                              ![product_id] = UpdateProductScores(@, score, now)]
           /\ returned' = Some([call |-> "score_product",
                                args |-> [product_id |-> product_id, inputs |-> inputs],
                                value |-> score])
    /\ UNCHANGED <<observations, supplier_matches, alerts, now, txn, alertvars,
                   schedvars, batch, WEIGHTS, response, retry, proxy, scoring_pass>>

\* what score_product reads: velocity metrics, supplier data, the latest price,
\* the creator count and the age of the product
StoredScoreInputs ==
    [ velocity : VelocityInputs,
      supplier : { None, Some([min_price |-> Some(3300), shipping_estimate |-> 200]) },
      selling_price : {0, 5500},
      creator_count : {3, 150},
      days_active : {0, 20} ]

ScoreStored ==
    \E product_id \in DOMAIN products, inputs \in StoredScoreInputs :
        ScoreAndStore(product_id, inputs)

NextStoredScore == AuditIngest \/ ScoreStored \/ Tick

SpecStoredScore == Init /\ [][NextStoredScore]_vars

(***************************************************************************)
(* Scheduling.                                                             *)
(***************************************************************************)
Trigger == \E j \in JobIds : Fire(j)

Return == \E j \in JobIds : Finish(j)

NextSched == ConfigureJobs \/ Start \/ Trigger \/ Return

SpecSched == Init /\ [][NextSched]_vars

(***************************************************************************)
(* C1: the store holds at most one ProductObservation per                  *)
(* (source, source_product_id, observed_at): a second upsert_product of an *)
(* identical ScrapedProduct adds no row.                                   *)
(***************************************************************************)
C1_OneObservationPerKey ==
    \A i, j \in DOMAIN observations :
        ( /\ observations[i].source = observations[j].source
          /\ observations[i].source_product_id = observations[j].source_product_id
          /\ observations[i].observed_at = observations[j].observed_at ) => i = j

(***************************************************************************)
(* C2: get_alert_candidates(min_score, cooldown_hours) returns exactly the *)
(* active Products with composite_score >= min_score whose most recent     *)
(* Alert.sent_at is absent or older than now - cooldown_hours.             *)
(***************************************************************************)
C2_AlertsOf(i) == { k \in DOMAIN alerts : alerts[k].product_id = i }

C2_MostRecentOlderThan(i, cutoff) ==
    \A k \in C2_AlertsOf(i) :
        (\A m \in C2_AlertsOf(i) : alerts[m].sent_at <= alerts[k].sent_at)
            => alerts[k].sent_at < cutoff

C2_Claimed(min_score, cooldown_hours) ==
    { i \in DOMAIN products :
        /\ products[i].is_active
        /\ products[i].composite_score >= min_score * 10
        /\ C2_MostRecentOlderThan(i, now - cooldown_hours) }

C2_GateIsMostRecentAlert ==
    \A cooldown_hours \in {0, MinHoursBetweenAlerts, 24} :
        GetAlertCandidates(products, alerts, MinCompositeScore, cooldown_hours, now)
            = C2_Claimed(MinCompositeScore, cooldown_hours)

(***************************************************************************)
(* C3: two Alert rows recorded for the same product are never less than    *)
(* min_hours_between_alerts apart.                                         *)
(***************************************************************************)
C3_AlertsCooldownApart ==
    \A i, j \in DOMAIN alerts :
        (i < j /\ alerts[i].product_id = alerts[j].product_id)
            => alerts[j].sent_at - alerts[i].sent_at >= MinHoursBetweenAlerts

(***************************************************************************)
(* C4: when two upsert_product transactions for the same previously unseen *)
(* normalized name run concurrently, one Product with that canonical_name  *)
(* exists after both complete.                                             *)
(***************************************************************************)
C4_OneProductPerName ==
    (\A w \in Workers : txn[w].pc = "idle") =>
        \A i, j \in DOMAIN products :
            products[i].canonical_name = products[j].canonical_name => i = j

(***************************************************************************)
(* C5: after upsert_product calls run one after another, no two Products   *)
(* share a canonical_name and no two Products of the same category have    *)
(* canonical_names whose similarity exceeds 85.                            *)
(***************************************************************************)
C5_NoMatchingProducts ==
    \A i, j \in DOMAIN products :
        i # j =>
            /\ products[i].canonical_name # products[j].canonical_name
            /\ ~( /\ products[i].category = products[j].category
                  /\ SimilarityExceeds(products[i].canonical_name,
                                       products[j].canonical_name) )

(***************************************************************************)
(* C6: the Alert row of an alert is persisted before the notifier is asked *)
(* to deliver it, whatever the delivery's outcome: every delivery          *)
(* attempted has an Alert row of its product, recorded no later than the   *)
(* attempt and less than the cooldown before it.                           *)
(***************************************************************************)
C6_RecordedBeforeDelivery ==
    \A d \in DOMAIN deliveries :
        \E k \in DOMAIN alerts :
            /\ alerts[k].product_id = deliveries[d].product_id
            /\ alerts[k].sent_at <= deliveries[d].at
            /\ deliveries[d].at - alerts[k].sent_at <= MinHoursBetweenAlerts

(***************************************************************************)
(* C7: no job id has two instances running at the same time, and after     *)
(* configure_jobs the scheduler's job defaults have coalesce = True and    *)
(* max_instances = 1 and every configured job has max_instances = 1.       *)
(***************************************************************************)
C7_OneInstancePerJob ==
    /\ \A j \in JobIds : instances[j] <= 1
    /\ sched_state # "new" =>
          /\ JobDefaults.coalesce
          /\ JobDefaults.max_instances = 1
          /\ \A j \in JobIds : jobs[j].added /\ jobs[j].max_instances = Some(1)

(***************************************************************************)
(* C8: there is at most one SupplierMatch row per                          *)
(* (product_id, supplier_source, supplier_url); a second save for the key  *)
(* updates the row in place.                                               *)
(***************************************************************************)
C8_OneMatchPerKey ==
    \A i, j \in DOMAIN supplier_matches :
        ( /\ supplier_matches[i].product_id = supplier_matches[j].product_id
          /\ supplier_matches[i].supplier_source = supplier_matches[j].supplier_source
          /\ supplier_matches[i].supplier_url = supplier_matches[j].supplier_url ) => i = j

(***************************************************************************)
(* C9: the deltas of an inserted observation are its views (sales) minus   *)
(* those of the most recent observation stored before the insert with the  *)
(* same product_id, the same source and a strictly earlier observed_at,    *)
(* when there is one and both values are non-null; otherwise null.         *)
(***************************************************************************)
C9_Prior(obs, o) ==
    { i \in DOMAIN obs : /\ obs[i].product_id = o.product_id
                         /\ obs[i].source = o.source
                         /\ obs[i].observed_at < o.observed_at }

C9_Expected(new, old) ==
    IF new # None /\ old # None THEN <<new[1] - old[1]>> ELSE None

C9_DeltaClaim(obs, o) ==
    IF C9_Prior(obs, o) = {}
    THEN o.views_delta = None /\ o.sales_delta = None
    ELSE \E i \in C9_Prior(obs, o) :
            /\ \A j \in C9_Prior(obs, o) : obs[j].observed_at <= obs[i].observed_at
            /\ o.views_delta = C9_Expected(o.views, obs[i].views)
            /\ o.sales_delta = C9_Expected(o.sales, obs[i].sales)

C9_DeltasAtInsert ==
    [][ Len(observations') = Len(observations) + 1 =>
            C9_DeltaClaim(observations, observations'[Len(observations')]) ]_vars

\* an observation got views_delta 500 although an observation of the other
\* source or of the other product, with an earlier observed_at, was stored before it
C9_Witness ==
    \E k \in DOMAIN observations :
        /\ observations[k].views_delta = Some(500)
        /\ \E i \in 1..(k - 1) :
              /\ \/ observations[i].source # observations[k].source
                 \/ observations[i].product_id # observations[k].product_id
              /\ observations[i].observed_at < observations[k].observed_at

(***************************************************************************)
(* C10: an upsert_product call leaves every observation stored before it   *)
(* unchanged, also when the new observation is earlier than stored ones.   *)
(***************************************************************************)
C10_StoredObservationsUnchanged ==
    [][ Len(observations') > Len(observations) =>
            \A i \in DOMAIN observations : observations'[i] = observations[i] ]_vars

\* the last observation inserted is earlier than a stored observation of the
\* same product and source that carries a delta
C10_Witness ==
    /\ observations # <<>>
    /\ LET k == Len(observations) IN
         \E i \in 1..(k - 1) :
            /\ observations[i].product_id = observations[k].product_id
            /\ observations[i].source = observations[k].source
            /\ observations[k].observed_at < observations[i].observed_at
            /\ observations[i].views_delta # None

(***************************************************************************)
(* C11: _find_matching_product returns a Product whose canonical_name      *)
(* equals the normalized incoming name in preference to any fuzzy match;   *)
(* otherwise, for an observation with a category, the earliest-created     *)
(* Product of that category whose similarity to the normalized name is     *)
(* greater than 85; when there is none, no match is returned and           *)
(* upsert_product creates a Product with canonical_name the normalized     *)
(* name and first_seen_at the time of the call.                            *)
(***************************************************************************)
C11_Exact(scraped) ==
    LET key == NormalizeName(scraped.name)
    IN  { i \in DOMAIN products : products[i].canonical_name = key }

C11_Similar(scraped) ==
    LET key == NormalizeName(scraped.name)
    IN  { i \in DOMAIN products :
            /\ products[i].category = scraped.category
            /\ SimilarityExceeds(key, products[i].canonical_name) }

C11_HasCategory(scraped) == scraped.category # None /\ scraped.category # <<"">>

C11_Answer(scraped, answer) ==
    LET exact == C11_Exact(scraped)
        similar == C11_Similar(scraped)
    IN  IF exact # {}
        THEN answer # None /\ answer[1] \in exact
        ELSE IF similar # {}
        THEN /\ answer # None
             /\ answer[1] \in similar
             /\ \A j \in similar :
                   /\ answer[1] <= j
                   /\ products[answer[1]].first_seen_at <= products[j].first_seen_at
        ELSE /\ answer = None
             /\ LET after == ResolveOrCreate(products, answer, scraped, now)
                IN  /\ Len(after) = Len(products) + 1
                    /\ \A i \in DOMAIN products : after[i] = products[i]
                    /\ after[Len(after)].canonical_name = NormalizeName(scraped.name)
                    /\ after[Len(after)].first_seen_at = now

C11_ResolutionOrder ==
    \A scraped \in ResolverPayloads :
        (C11_Exact(scraped) # {} \/ C11_HasCategory(scraped)) =>
            C11_Answer(scraped, FindMatchingProduct(products, scraped))

\* "abc" and "abcde" are Products of one category, created in either order; the
\* third observation stored was resolved to the one created first, which is
\* what an incoming "abcd" of that category, similar to both, resolves to
C11_Witness ==
    /\ Len(products) = 2 /\ Len(observations) = 3
    /\ products[1].category = products[2].category
    /\ C11_HasCategory(products[1])
    /\ {products[1].canonical_name, products[2].canonical_name}
          = {<<"a", "b", "c">>, <<"a", "b", "c", "d", "e">>}
    /\ observations[3].product_id = 1
    /\ \E scraped \in ResolverPayloads :
          /\ scraped.category = products[1].category
          /\ C11_Exact(scraped) = {}
          /\ C11_Similar(scraped) = {1, 2}
          /\ FindMatchingProduct(products, scraped) = <<1>>

(***************************************************************************)
(* C12: for an incoming observation without a category and without an      *)
(* exact canonical_name match, the resolver searches all Products and      *)
(* answers with an existing Product whose similarity exceeds 85 whenever   *)
(* there is one.                                                           *)
(***************************************************************************)
C12_SimilarAnywhere(scraped) ==
    LET key == NormalizeName(scraped.name)
    IN  { i \in DOMAIN products : SimilarityExceeds(key, products[i].canonical_name) }

C12_UnscopedFuzzyMatch ==
    \A scraped \in ResolverPayloads :
        ( /\ scraped.category = None
          /\ C11_Exact(scraped) = {}
          /\ C12_SimilarAnywhere(scraped) # {} ) =>
            /\ FindMatchingProduct(products, scraped) # None
            /\ FindMatchingProduct(products, scraped)[1] \in C12_SimilarAnywhere(scraped)

(***************************************************************************)
(* C13: the name normalizer is idempotent and its output has no leading or *)
(* trailing whitespace, no punctuation and no run of more than one space:  *)
(* every canonical_name stored is such a key and normalizes to itself.     *)
(***************************************************************************)
C13_Clean(key) ==
    /\ \A i \in DOMAIN key : key[i] \in WordChars \cup {" "}
    /\ key # <<>> => key[1] # " " /\ key[Len(key)] # " "
    /\ \A i \in 1..(Len(key) - 1) : ~(key[i] = " " /\ key[i + 1] = " ")

C13_NormalizerIdempotent ==
    \A i \in DOMAIN products :
        /\ NormalizeName(products[i].canonical_name) = products[i].canonical_name
        /\ C13_Clean(products[i].canonical_name)

(***************************************************************************)
(* C14: alert history is append-only and is_alerted is sticky: a step of   *)
(* the store adds at most one Alert row, and when it adds one the row's    *)
(* product has is_alerted set; no step (record_alert, scoring, cleanup,    *)
(* ingestion) changes or deletes an Alert row already stored, and no step  *)
(* resets is_alerted.                                                      *)
(***************************************************************************)
C14_AlertsAppendOnly ==
    [][ /\ Len(alerts') \in {Len(alerts), Len(alerts) + 1}
        /\ \A k \in DOMAIN alerts : alerts'[k] = alerts[k]
        /\ Len(alerts') = Len(alerts) + 1 =>
              /\ alerts'[Len(alerts')].product_id \in DOMAIN products'
              /\ products'[alerts'[Len(alerts')].product_id].is_alerted
        /\ \A i \in DOMAIN products :
              products[i].is_alerted => (i \in DOMAIN products' /\ products'[i].is_alerted) ]_vars

\* a product alerted twice was scored again after its first alert, and the
\* cleanup has deleted every observation
C14_Witness ==
    /\ observations = <<>>
    /\ \E j, k \in DOMAIN alerts :
          /\ j < k
          /\ alerts[j].product_id = alerts[k].product_id
          /\ products[alerts[j].product_id].is_alerted
          /\ products[alerts[j].product_id].composite_score
                # alerts[k].composite_score_at_alert

(***************************************************************************)
(* C15: a Product's first_seen_at is the time of its creation and never    *)
(* changes; its last_updated_at never decreases over upsert_product,       *)
(* update_product_scores and the other operations of the store; and an     *)
(* upsert_product that matches an existing Product sets that Product's     *)
(* last_updated_at to the time of the call.                                *)
(***************************************************************************)
C15_Upserted == observations'[Len(observations')].product_id

C15_TimestampsMonotone ==
    [][ /\ \A i \in DOMAIN products :
              /\ i \in DOMAIN products'
              /\ products'[i].first_seen_at = products[i].first_seen_at
              /\ products'[i].last_updated_at >= products[i].last_updated_at
        /\ \A i \in DOMAIN products' :
              i \notin DOMAIN products => products'[i].first_seen_at = now
        /\ (Len(observations') = Len(observations) + 1 /\ Len(products') = Len(products)) =>
              products'[C15_Upserted].last_updated_at = now ]_vars

\* a Product created at hour 0 and never scored or alerted carries
\* last_updated_at = 2: an upsert_product at hour 2 matched it
C15_Witness ==
    \E i \in DOMAIN products :
        /\ products[i].first_seen_at = 0
        /\ products[i].last_updated_at = 2
        /\ products[i].composite_score = 0
        /\ ~products[i].is_alerted
        /\ Cardinality({k \in DOMAIN observations : observations[k].product_id = i}) >= 2

(***************************************************************************)
(* C16: in a batch job an item that raises aborts only itself.  A          *)
(* run_scoring over n products of which some raise leaves the raising      *)
(* products as they were and stores the scores of every other product of   *)
(* the batch; a run_agent store loop over n items of which f raise stores  *)
(* n - f observations and leaves what was stored before in place.          *)
(***************************************************************************)
C16_Scored(before, after) ==
    /\ after.last_updated_at = now
    /\ \E d \in DimensionResults :
          after = UpdateProductScores(before, ScoreProduct(d), now)

C16_ScoringRun ==
    LET ids == InIdOrder(ProductsForScoring)
    IN  /\ batch'.size = Len(ids)
        /\ observations' = observations
        /\ Len(products') = Len(products)
        /\ \A k \in DOMAIN ids :
              IF k \in batch'.failed
              THEN products'[ids[k]] = products[ids[k]]
              ELSE C16_Scored(products[ids[k]], products'[ids[k]])

C16_StoreRun ==
    /\ Len(observations') = Len(observations) + batch'.size - Cardinality(batch'.failed)
    /\ \A i \in DOMAIN observations : observations'[i] = observations[i]
    /\ \A i \in DOMAIN products :
          /\ i \in DOMAIN products'
          /\ products'[i] = [products[i] EXCEPT !.last_updated_at = products'[i].last_updated_at]

C17_WeightsSumToOne ==
    (batch.job = "scoring" /\ batch.failed # 1..batch.size) =>
        WEIGHTS.velocity + WEIGHTS.margin + WEIGHTS.saturation = 100

(***************************************************************************)
(* C18: under weights that sum to 1.0, whatever the dimension scorers are  *)
(* given, the composite_score score_product returns lies in [0, 100], and  *)
(* so does each of velocity_score, margin_score and saturation_score.      *)
(***************************************************************************)
C18_SumsToOne ==
    /\ WEIGHTS.velocity >= 0 /\ WEIGHTS.margin >= 0 /\ WEIGHTS.saturation >= 0
    /\ WEIGHTS.velocity + WEIGHTS.margin + WEIGHTS.saturation = 100

C18_ScoresInRange ==
    (response # None /\ C18_SumsToOne) =>
        /\ response[1].score.composite_score \in 0..1000
        /\ response[1].score.velocity_score \in 0..1000
        /\ response[1].score.margin_score \in 0..1000
        /\ response[1].score.saturation_score \in 0..1000

\* every dimension is at its upper limit (the velocity contributions add up to
\* 125 points before the clamp) and the composite is 100.0
C18_Witness ==
    /\ response # None /\ C18_SumsToOne
    /\ response[1].inputs.velocity # None
    /\ response[1].inputs.velocity[1].views_growth_rate = <<80>>
    /\ response[1].score.velocity_score = 1000
    /\ response[1].score.margin_score = 1000
    /\ response[1].score.saturation_score = 1000
    /\ response[1].score.composite_score = 1000

(***************************************************************************)
(* C19: the recommendation is the five-tier step function of the composite *)
(* (>= 80 strong_buy, >= 65 buy, >= 50 watch, >= 35 pass, else too_late)   *)
(* after two overrides applied in this order: unprofitable among the       *)
(* signals gives pass whatever the score (also with saturated present),    *)
(* and saturated among the signals with a composite below 60 gives         *)
(* too_late; a saturated product with composite >= 60 gets its tier.       *)
(***************************************************************************)
C19_Composite(score) ==
    (score.velocity_score * WEIGHTS.velocity + score.margin_score * WEIGHTS.margin
     + score.saturation_score * WEIGHTS.saturation)

C19_Tier(composite) ==
    CASE composite >= 80000 -> "strong_buy"
      [] composite < 80000 /\ composite >= 65000 -> "buy"
      [] composite < 65000 /\ composite >= 50000 -> "watch"
      [] composite < 50000 /\ composite >= 35000 -> "pass"
      [] composite < 35000 -> "too_late"

C19_Classification ==
    response # None =>
        LET score == response[1].score
            composite == C19_Composite(score)
        IN  /\ "unprofitable" \in score.signals => score.recommendation = "pass"
            /\ ("unprofitable" \notin score.signals /\ "saturated" \in score.signals
                  /\ composite < 60000) => score.recommendation = "too_late"
            /\ ("unprofitable" \notin score.signals
                  /\ ("saturated" \notin score.signals \/ composite >= 60000)) =>
                  score.recommendation = C19_Tier(composite)

\* an unprofitable and saturated product with a composite below 60 is a pass
C19_Witness ==
    /\ response # None
    /\ {"unprofitable", "saturated"} \subseteq response[1].score.signals
    /\ C19_Composite(response[1].score) < 60000
    /\ C19_Composite(response[1].score) >= 35000
    /\ response[1].score.recommendation = "pass"

(***************************************************************************)
(* C20: when a product is scored with supplier data (a supplier price) and *)
(* a positive selling price whose net margin, the price less supplier      *)
(* cost, shipping, platform fee, payment fee and advertising cost, is      *)
(* negative, the signals contain unprofitable and the recommendation is    *)
(* pass, whatever the velocity and saturation results are.                 *)
(***************************************************************************)
C20_HasMargin(inputs) ==
    /\ inputs.supplier # None
    /\ inputs.supplier[1].min_price # None
    /\ inputs.supplier[1].min_price[1] > 0
    /\ inputs.selling_price > 0

\* net_margin_usd in thousandths of a cent
C20_NetMargin(inputs) ==
    LET price == inputs.selling_price
        platform_fees == 80 * price
        payment_fees == 29 * price + 30000
        ad_cost == 150 * price
    IN  1000 * (price - inputs.supplier[1].min_price[1] - inputs.supplier[1].shipping_estimate)
        - platform_fees - payment_fees - ad_cost

C20_UnprofitableIsPass ==
    (response # None /\ C20_HasMargin(response[1].inputs)
       /\ C20_NetMargin(response[1].inputs) < 0) =>
        /\ "unprofitable" \in response[1].score.signals
        /\ response[1].score.recommendation = "pass"

\* the gross margin is not negative, the net margin is, velocity and saturation
\* are at 100 and the composite is in a buy tier: the recommendation is pass
C20_Witness ==
    /\ response # None /\ C20_HasMargin(response[1].inputs)
    /\ C20_NetMargin(response[1].inputs) < 0
    /\ response[1].inputs.selling_price
          >= response[1].inputs.supplier[1].min_price[1]
             + response[1].inputs.supplier[1].shipping_estimate
    /\ response[1].score.velocity_score = 1000
    /\ response[1].score.saturation_score = 1000
    /\ response[1].score.composite_score >= 650
    /\ response[1].score.recommendation = "pass"

(***************************************************************************)
(* C21: missing data degrades to a neutral margin score of 50 with an      *)
(* explicit signal.  In score_product, without supplier data (absent, or   *)
(* without a price) the margin score is 50 and the signals contain         *)
(* no_supplier_data, and with supplier data but no positive observed price *)
(* the margin score is 50 and the signals contain no_price_data; a direct  *)
(* MarginScorer.calculate call with selling_price <= 0 returns the score   *)
(* 50 and the signal no_price_data.                                        *)
(***************************************************************************)
C21_SupplierCases ==
    SupplierInputs \cup { Some([min_price |-> None, shipping_estimate |-> 200]) }

C21_HasSupplierPrice(supplier) ==
    supplier # None /\ supplier[1].min_price # None /\ supplier[1].min_price[1] # 0

C21_ScoreProductCases ==
    [ velocity : {None}, supplier : C21_SupplierCases, selling_price : {0, 1000},
      creator_count : {3}, days_active : {0} ]

C21_NeutralOnMissingData ==
    /\ \A inputs \in C21_ScoreProductCases :
          /\ ~C21_HasSupplierPrice(inputs.supplier) =>
                /\ DimensionsOf(inputs).margin = 500
                /\ "no_supplier_data" \in DimensionsOf(inputs).signals
          /\ (C21_HasSupplierPrice(inputs.supplier) /\ inputs.selling_price <= 0) =>
                /\ DimensionsOf(inputs).margin = 500
                /\ "no_price_data" \in DimensionsOf(inputs).signals
    /\ ( /\ returned # None
         /\ returned[1].call = "MarginScorer.calculate"
         /\ returned[1].args[1] <= 0 ) =>
            /\ returned[1].value.score = 500
            /\ "no_price_data" \in returned[1].value.signals

(***************************************************************************)
(* C22: for observations in the window that carry the views 500, 1000 and  *)
(* 2000 (three points over 48 hours, no sales readings),                   *)
(* VelocityScorer.calculate yields views_growth_rate 1.0, the compound     *)
(* per-step rate (last / first) ^ (1 / (n - 1)) - 1, emits the signal      *)
(* rapid_view_growth and returns a velocity score strictly greater than    *)
(* 80.                                                                     *)
(***************************************************************************)
C22_Series ==
    << [observed_at |-> -48, views |-> Some(500), sales |-> None],
       [observed_at |-> -24, views |-> Some(1000), sales |-> None],
       [observed_at |-> 0, views |-> Some(2000), sales |-> None] >>

C22_Called ==
    /\ returned # None
    /\ returned[1].call = "VelocityScorer.calculate"
    /\ returned[1].args = C22_Series

C22_VelocityAbove80 ==
    C22_Called =>
        /\ VelocityMetrics(returned[1].args, now).views_growth_rate = Some(100)
        /\ "rapid_view_growth" \in returned[1].value.signals
        /\ returned[1].value.score > 800

\* C22 as amended: the growth rate is 1.0 and the signal is emitted, and the
\* velocity score is the baseline 50 plus the views contribution at its cap
\* of 30, that is exactly 80.0
C22_VelocityIs80 ==
    C22_Called =>
        /\ VelocityMetrics(returned[1].args, now).views_growth_rate = Some(100)
        /\ VelocityMetrics(returned[1].args, now).sales_growth_rate = None
        /\ VelocityMetrics(returned[1].args, now).acceleration = None
        /\ returned[1].value.signals = {"rapid_view_growth"}
        /\ returned[1].value.score = 800

C22_Witness == C22_Called /\ returned[1].value.score = 800

(***************************************************************************)
(* C23: saturation inversion.  For any fixed days_since_first_seen and no  *)
(* per-creator data the saturation score is monotonically non-increasing   *)
(* in creator_count: the score returned for a creator count is at most the *)
(* score of every smaller count on the same day; in particular raising     *)
(* creator_count from 3 to 60 never raises the score.                      *)
(***************************************************************************)
C23_Called == returned # None /\ returned[1].call = "SaturationScorer.calculate"

C23_SaturationInversion ==
    C23_Called =>
        LET creator_count == returned[1].args[1]
            days == returned[1].args[2]
        IN  /\ \A fewer \in 0..creator_count :
                  SaturationCalculate(fewer, days).score >= returned[1].value.score
            /\ creator_count = 60 =>
                  returned[1].value.score <= SaturationCalculate(3, days).score

\* 60 creators on day 15 score 15.0 where 3 creators score 80.0
C23_Witness ==
    /\ C23_Called
    /\ returned[1].args = <<60, 15>>
    /\ returned[1].value.score = 150
    /\ SaturationCalculate(3, 15).score = 800

(***************************************************************************)
(* C24: a cleanup that runs while a scoring pass is under way never        *)
(* deletes an observation of a product the pass has selected and not yet   *)
(* read: every product selected by get_products_for_scoring still has, and *)
(* is scored on, all the observations it had when selected.                *)
(***************************************************************************)
C24_ScoredOnSelectedObservations ==
    scoring_pass # None =>
        LET pass == scoring_pass[1]
        IN  /\ \A k \in DOMAIN pass.selected :
                  pass.had[pass.selected[k]]
                      \subseteq ObservationIdsOf(observations, pass.selected[k])
            /\ \A k \in DOMAIN pass.scored :
                  pass.had[pass.scored[k].product_id] \subseteq pass.scored[k].read

(***************************************************************************)
(* C25: cleanup_old_observations(cutoff) deletes exactly the observations  *)
(* with observed_at strictly before the cutoff and returns their count; it *)
(* leaves every other observation, every Alert and every SupplierMatch     *)
(* unchanged and deletes no Product: a Product whose observations are all  *)
(* past the retention cutoff is marked is_active = false instead.          *)
(***************************************************************************)
C25_Old(cutoff) == { k \in DOMAIN observations : observations[k].observed_at < cutoff }

C25_CleanupStep(cutoff) ==
    /\ Len(observations') = Len(observations) - Cardinality(C25_Old(cutoff))
    /\ CleanupDeleted(observations, cutoff) = Cardinality(C25_Old(cutoff))
    /\ \A k \in DOMAIN observations \ C25_Old(cutoff) :
          \E m \in DOMAIN observations' : observations'[m] = observations[k]
    /\ \A m \in DOMAIN observations' :
          \E k \in DOMAIN observations \ C25_Old(cutoff) : observations[k] = observations'[m]
    /\ alerts' = alerts
    /\ supplier_matches' = supplier_matches
    /\ Len(products') = Len(products)
    /\ \A i \in DOMAIN products :
          IF /\ \E k \in C25_Old(cutoff) : observations[k].product_id = i
             /\ \A k \in DOMAIN observations :
                   observations[k].product_id = i => k \in C25_Old(cutoff)
          THEN products'[i] = [products[i] EXCEPT !.is_active = FALSE]
          ELSE products'[i] = products[i]

\* every step that deletes observations is a cleanup of some retention period
C25_CleanupMarksInactive ==
    [][ Len(observations') < Len(observations) =>
            \E days \in RetentionChoices : C25_CleanupStep(now - days) ]_vars

(***************************************************************************)
(* C26: ingestion of one signal is all-or-nothing.  When upsert_product    *)
(* fails at a step of its transaction (a storage error while resolving,    *)
(* while inserting the Product or the observation, or while committing),   *)
(* neither the newly created Product nor the observation nor the change of *)
(* last_updated_at is persisted: the store is left exactly as before the   *)
(* call.  A call that does not fail persists the observation together with *)
(* its Product.                                                            *)
(***************************************************************************)
C26_InTransaction == {"find", "flush", "deltas", "commit"}

C26_Raised(call) ==
    /\ call # None
    /\ call[1].call = "upsert_product"
    /\ call[1].value \in C26_InTransaction

C27_Actionable == {"strong_buy", "buy"}

C27_OnlyActionableAlerts ==
    [][ /\ Len(deliveries') > Len(deliveries) =>
              /\ check_pc = "candidate"
              /\ pending' # None
              /\ pending'[1].product_id = Head(candidates)
              /\ deliveries'[Len(deliveries')].product_id = Head(candidates)
              /\ pending'[1].score.recommendation \in C27_Actionable
        /\ Len(alerts') > Len(alerts) =>
              /\ pending # None
              /\ alerts'[Len(alerts')].product_id = pending[1].product_id
              /\ alerts'[Len(alerts')].alert_type = pending[1].score.recommendation
              /\ alerts'[Len(alerts')].alert_type \in C27_Actionable ]_vars

\* a Product stored with the composite 73.0 of an unprofitable scoring (a pass)
\* passed the gate and was alerted as a buy on its recomputed score of 70.5
C27_Witness ==
    \E k \in DOMAIN alerts :
        /\ alerts[k].alert_type = "buy"
        /\ alerts[k].composite_score_at_alert = 705
        /\ products[alerts[k].product_id].composite_score = 730
        /\ products[alerts[k].product_id].margin_score = 100

(***************************************************************************)
(* C28: retry_with_backoff always terminates.  It invokes func at most     *)
(* max_retries + 1 times; it returns the result of the first invocation    *)
(* that succeeds, without a further call; after max_retries + 1 failures   *)
(* in a row it raises the last exception; on_retry is called once for      *)
(* every failed attempt but the last, with the attempt's number; and the   *)
(* delay before attempt k + 1, the jitter apart, is                        *)
(* min(base_delay * 2^k, max_delay).                                       *)
(***************************************************************************)
C28_Finished == retry # None /\ retry[1].pc \in {"returned", "raised"}

C28_Failures(r) == Cardinality({ k \in DOMAIN r.results : r.results[k] = "raised" })

C28_Delay(r, k) ==
    LET doubled == r.base_delay * (2 ^ k)
    IN  IF doubled < r.max_delay THEN doubled ELSE r.max_delay

C28_Bounded ==
    retry # None =>
        LET r == retry[1]
            calls == Len(r.results)
        IN  /\ calls <= r.max_retries + 1
            /\ \A k \in 1..(calls - 1) : r.results[k] = "raised"
            /\ r.pc = "returned" =>
                  /\ r.results[calls] = "returned"
                  /\ r.outcome = <<[result_of |-> calls]>>
            /\ r.pc = "raised" =>
                  /\ calls = r.max_retries + 1
                  /\ C28_Failures(r) = r.max_retries + 1
                  /\ r.outcome = <<[exception_of |-> calls]>>
            /\ r.pc \in {"func", "sleep"} => r.outcome = None
            /\ Len(r.delays) = C28_Failures(r) - (IF r.pc = "raised" THEN 1 ELSE 0)
            /\ \A k \in DOMAIN r.delays : r.delays[k] = C28_Delay(r, k - 1)
            /\ r.pc = "sleep" =>
                  /\ r.total_delay >= r.delays[Len(r.delays)]
                  /\ 10 * r.total_delay <= 11 * r.delays[Len(r.delays)]
            /\ r.on_retry_calls =
                  IF r.on_retry THEN [k \in DOMAIN r.delays |-> k - 1] ELSE <<>>

C28_RetryTerminates == []C28_Bounded /\ ((retry # None) ~> C28_Finished)

\* four retries were used up: five invocations failed, the delays were 2, 4, 6
\* and 6 seconds under a max_delay of 6 seconds, and the fifth exception is raised
C28_Witness ==
    /\ retry # None
    /\ retry[1].pc = "raised"
    /\ retry[1].max_retries = 4
    /\ Len(retry[1].results) = 5
    /\ retry[1].delays = <<20, 40, 60, 60>>
    /\ retry[1].on_retry_calls = <<0, 1, 2, 3>>
    /\ retry[1].outcome = <<[exception_of |-> 5]>>


(***************************************************************************)
(* C29: ProxyManager.get_proxy returns None if no proxies are configured   *)
(* or all proxies have been marked failed; otherwise it returns the        *)
(* current sticky proxy until its sticky window expires or it is marked    *)
(* failed, and it never returns a proxy that is in failed_proxies.         *)
(***************************************************************************)
C29_GetProxyStep ==
    /\ proxy # None
    /\ proxy' # None
    /\ proxy'[1].calls = proxy[1].calls + 1

C29_AllFailed(pm) ==
    \A k \in DOMAIN pm.proxies : pm.proxies[k] \in pm.failed_proxies

C29_Sticky(pm) ==
    /\ pm.current_proxy # None
    /\ pm.current_proxy_until # None
    /\ now < pm.current_proxy_until[1]

\* the parts of the claim about a manager that has a proxy left to give
C29_StickyAndNeverFailed ==
    [][ C29_GetProxyStep =>
          LET pm    == proxy[1]
              value == proxy'[1].value[1]
          IN  /\ pm.proxies = <<>> => value = None
              /\ (pm.proxies # <<>> /\ C29_Sticky(pm)) => value = pm.current_proxy
              /\ (pm.proxies # <<>> /\ ~C29_AllFailed(pm)) =>
                    /\ value # None
                    /\ value[1] \notin pm.failed_proxies
              /\ value # None => value[1] \notin proxy'[1].failed_proxies ]_vars

C29_NoneWhenAllFailed ==
    [][ C29_GetProxyStep =>
          LET pm    == proxy[1]
              value == proxy'[1].value[1]
          IN  (pm.proxies = <<>> \/ C29_AllFailed(pm)) => value = None ]_vars

C29_GetProxy == C29_NoneWhenAllFailed /\ C29_StickyAndNeverFailed


(***************************************************************************)
(* C30: the recommendation of an OpportunityScore is consistent with the   *)
(* composite_score of the same result.  With neither unprofitable nor      *)
(* saturated among the signals, the recommendation is the tier of the      *)
(* five-tier step function at the composite_score rounded to one decimal,  *)
(* the value returned and stored on the Product, so that                   *)
(* count_by_recommendation and the tier filter of the API, which read the  *)
(* stored score, place the product under the scorer's recommendation.      *)
(***************************************************************************)
C30_Scored == returned # None /\ returned[1].call = "score_product"

C30_NoOverride(score) ==
    "unprofitable" \notin score.signals /\ "saturated" \notin score.signals

C30_RecommendationMatchesStoredScore ==
    C30_Scored =>
        LET score == returned[1].value
            product_id == returned[1].args.product_id
        IN  C30_NoOverride(score) =>
              /\ products[product_id].composite_score = score.composite_score
              /\ score.recommendation = StoredTier(score.composite_score)
              /\ CountByRecommendation(products)[score.recommendation] >= 1
              /\ product_id \in ListProducts(products, score.recommendation)
====
